---- MODULE Spec2Model ----
(***************************************************************************)
(* Model of the kidscope backend: the marksheet extractor (src/ocr.py) and *)
(* the report / discussion service (src/report.py).                        *)
(*                                                                         *)
(* Python values are tagged records [t, n, s]: t is the type tag, n the    *)
(* number (hundredths for a float), s the text as a sequence of            *)
(* one-character strings.                                                  *)
(***************************************************************************)
EXTENDS Integers, Sequences, FiniteSets, TLC

VARIABLES
    endpoint,  \* the route the request under study is sent to
    pc,        \* position of the handler under study
    data,      \* report.py: data = request.get_json()
    query,     \* report.py: query, the prompt given to qa_chain
    upload,    \* the multipart request of /api/extract-marksheet
    images,    \* ocr.py: images (number of pages opened)
    idx,       \* ocr.py: pages of `images` already iterated
    reply,     \* the last reply of the vision model / chat pipeline
    results,   \* ocr.py: results
    calls,     \* external calls made so far (vision model / chat pipeline)
    response,  \* the HTTP response, NoResponse until the handler returns
    globals,   \* the module-level values of ocr.py and report.py
    parked     \* the other request in flight, while its thread is not running

vars ==
    <<endpoint, pc, data, query, upload, images, idx, reply, results, calls, response,
      globals, parked>>

ocrVars == <<upload, images, idx, results>>

(***************************************************************************)
(* Bounds                                                                  *)
(***************************************************************************)
MaxRows == 2
MaxSubjects == 2
MaxPages == 2

(***************************************************************************)
(* Python values                                                           *)
(***************************************************************************)
IntV(i) == [t |-> "int", n |-> i, s |-> <<>>]
FloatV(h) == [t |-> "float", n |-> h, s |-> <<>>]
StrV(x) == [t |-> "str", n |-> 0, s |-> x]
PyNone == [t |-> "none", n |-> 0, s |-> <<>>]
NaN == [t |-> "nan", n |-> 0, s |-> <<>>]
Absent == [t |-> "absent", n |-> 0, s |-> <<>>]
DictV == [t |-> "dict", n |-> 0, s |-> <<>>]

NA == StrV(<<"N", "/", "A">>)
Empty == StrV(<<>>)
PassV == StrV(<<"P", "a", "s", "s">>)
FailV == StrV(<<"F", "a", "i", "l">>)

Get(v, default) == IF v = Absent THEN default ELSE v

Digits == {"0", "1", "2", "3", "4", "5", "6", "7", "8", "9"}

DigitVal(c) ==
    CASE c = "0" -> 0 [] c = "1" -> 1 [] c = "2" -> 2 [] c = "3" -> 3
      [] c = "4" -> 4 [] c = "5" -> 5 [] c = "6" -> 6 [] c = "7" -> 7
      [] c = "8" -> 8 [] c = "9" -> 9

AllDigits(x) == Len(x) > 0 /\ \A i \in 1..Len(x) : x[i] \in Digits

RECURSIVE DigitsVal(_)
DigitsVal(x) ==
    IF x = <<>> THEN 0
    ELSE 10 * DigitsVal(SubSeq(x, 1, Len(x) - 1)) + DigitVal(x[Len(x)])

\* int(text): an optional sign followed by decimal digits
TextIsInt(x) ==
    \/ AllDigits(x)
    \/ Len(x) > 1 /\ x[1] = "-" /\ AllDigits(Tail(x))

TextInt(x) == IF x[1] = "-" THEN 0 - DigitsVal(Tail(x)) ELSE DigitsVal(x)

\* int(v) succeeds (otherwise ValueError / TypeError)
IntOk(v) ==
    \/ v.t \in {"int", "float"}
    \/ v.t = "str" /\ TextIsInt(v.s)

\* int(v): a float is truncated toward zero
IntOf(v) ==
    CASE v.t = "int" -> v.n
      [] v.t = "float" -> IF v.n >= 0 THEN v.n \div 100 ELSE 0 - ((0 - v.n) \div 100)
      [] v.t = "str" -> TextInt(v.s)

\* round(obtained / total * 100, 2), as a number of hundredths (ties to even)
Round2(obtained, total) ==
    LET num == IF total > 0 THEN obtained * 10000 ELSE 0 - obtained * 10000
        den == IF total > 0 THEN total ELSE 0 - total
        q == num \div den
        r == num % den
    IN  IF 2 * r > den THEN q + 1
        ELSE IF 2 * r < den THEN q
        ELSE IF q % 2 = 0 THEN q ELSE q + 1

(***************************************************************************)
(* ocr.py: configuration                                                   *)
(***************************************************************************)
GradeLabels ==
    {<<"A", "+">>, <<"A">>, <<"B", "+">>, <<"B">>, <<"C", "+">>, <<"C">>,
     <<"D", "+">>, <<"D">>, <<"E">>, <<"F">>}

GradeToMarks ==
    [g \in GradeLabels |->
        CASE g = <<"A", "+">> -> 95
          [] g = <<"A">> -> 85
          [] g = <<"B", "+">> -> 75
          [] g = <<"B">> -> 65
          [] g = <<"C", "+">> -> 55
          [] g = <<"C">> -> 45
          [] g = <<"D", "+">> -> 35
          [] g = <<"D">> -> 25
          [] g = <<"E">> -> 15
          [] g = <<"F">> -> 0]

(***************************************************************************)
(* report.py: configuration                                                *)
(***************************************************************************)
ZodiacSigns ==
    <<[sign |-> "Capricorn", start |-> <<1, 1>>, end |-> <<1, 19>>],
      [sign |-> "Aquarius", start |-> <<1, 20>>, end |-> <<2, 18>>],
      [sign |-> "Pisces", start |-> <<2, 19>>, end |-> <<3, 20>>],
      [sign |-> "Aries", start |-> <<3, 21>>, end |-> <<4, 19>>],
      [sign |-> "Taurus", start |-> <<4, 20>>, end |-> <<5, 20>>],
      [sign |-> "Gemini", start |-> <<5, 21>>, end |-> <<6, 20>>],
      [sign |-> "Cancer", start |-> <<6, 21>>, end |-> <<7, 22>>],
      [sign |-> "Leo", start |-> <<7, 23>>, end |-> <<8, 22>>],
      [sign |-> "Virgo", start |-> <<8, 23>>, end |-> <<9, 22>>],
      [sign |-> "Libra", start |-> <<9, 23>>, end |-> <<10, 22>>],
      [sign |-> "Scorpio", start |-> <<10, 23>>, end |-> <<11, 21>>],
      [sign |-> "Sagittarius", start |-> <<11, 22>>, end |-> <<12, 21>>],
      [sign |-> "Capricorn", start |-> <<12, 22>>, end |-> <<12, 31>>]>>

FamousZodiacs ==
    [Aries |-> <<"Ajay Devgn", "Kapil Sharma", "Dr. A.P.J. Abdul Kalam", "Emraan Hashmi", "Robert Downey Jr.">>,
     Taurus |-> <<"Sachin Tendulkar", "Anushka Sharma", "G. D. Naidu", "Madhuri Dixit", "David Beckham">>,
     Gemini |-> <<"Sonam Kapoor", "Shilpa Shetty", "Karan Johar", "Dr. B. R. Ambedkar", "Angelina Jolie">>,
     Cancer |-> <<"Priyanka Chopra", "MS Dhoni", "Ranveer Singh", "J. R. D. Tata", "Ariana Grande">>,
     Leo |-> <<"Saif Ali Khan", "Sridevi", "Jacqueline Fernandez", "Bal Gangadhar Tilak", "Barack Obama">>,
     Virgo |-> <<"Akshay Kumar", "Kareena Kapoor", "Narendra Modi", "Verghese Kurien", "Michael Jackson">>,
     Libra |-> <<"Amitabh Bachchan", "Rekha", "Ranbir Kapoor", "Dr. Vikram Sarabhai", "Will Smith">>,
     Scorpio |-> <<"Shah Rukh Khan", "Aishwarya Rai", "Sushmita Sen", "Lal Bahadur Shastri", "Bill Gates">>,
     Sagittarius |-> <<"Yami Gautam", "Dharmendra", "John Abraham", "Kalpana Chawla", "Taylor Swift">>,
     Capricorn |-> <<"Deepika Padukone", "Hrithik Roshan", "Javed Akhtar", "Swami Vivekananda", "Michelle Obama">>,
     Aquarius |-> <<"Preity Zinta", "Abhishek Bachchan", "Jackie Shroff", "Ratan Tata", "Oprah Winfrey">>,
     Pisces |-> <<"Alia Bhatt", "Shahid Kapoor", "Tiger Shroff", "C. V. Raman", "Albert Einstein">>]

(***************************************************************************)
(* The module-level values, as the imports leave them, and as read         *)
(***************************************************************************)
Loaded ==
    [GRADE_TO_MARKS |-> GradeToMarks, ZODIAC_SIGNS |-> ZodiacSigns,
     FAMOUS_ZODIACS |-> FamousZodiacs, vector_store |-> "loaded", qa_chain |-> "built"]

GRADE_TO_MARKS == globals.GRADE_TO_MARKS
ZODIAC_SIGNS == globals.ZODIAC_SIGNS
FAMOUS_ZODIACS == globals.FAMOUS_ZODIACS

\* a handler step that rewrites the grade table
RegradingStep(g, ep) == [g EXCEPT !.GRADE_TO_MARKS = [l \in DOMAIN @ |-> 100]]

\* what a step of a handler leaves in the module-level values: no handler
\* assigns to one of them or changes one in place
AfterStep(g, ep) == g

\* `v in GRADE_TO_MARKS` for a hashable v
InGradeTable(v) == v.t = "str" /\ v.s \in DOMAIN GRADE_TO_MARKS

(***************************************************************************)
(* Text helpers (str methods used by the handlers)                         *)
(***************************************************************************)
UpperCase ==
    <<"A", "B", "C", "D", "E", "F", "G", "H", "I", "J", "K", "L", "M",
      "N", "O", "P", "Q", "R", "S", "T", "U", "V", "W", "X", "Y", "Z">>

LowerCase ==
    <<"a", "b", "c", "d", "e", "f", "g", "h", "i", "j", "k", "l", "m",
      "n", "o", "p", "q", "r", "s", "t", "u", "v", "w", "x", "y", "z">>

LowerChar(c) ==
    IF \E i \in 1..26 : UpperCase[i] = c
    THEN LowerCase[CHOOSE i \in 1..26 : UpperCase[i] = c]
    ELSE c

\* x.lower()
Lower(x) == [i \in 1..Len(x) |-> LowerChar(x[i])]

\* x.endswith(suffix)
EndsWith(x, suffix) ==
    /\ Len(x) >= Len(suffix)
    /\ SubSeq(x, Len(x) - Len(suffix) + 1, Len(x)) = suffix

\* x.startswith(prefix)
StartsWith(x, prefix) ==
    /\ Len(x) >= Len(prefix)
    /\ SubSeq(x, 1, Len(prefix)) = prefix

\* needle in x
Contains(x, needle) ==
    \E i \in 1..(Len(x) - Len(needle) + 1) :
        SubSeq(x, i, i + Len(needle) - 1) = needle

RECURSIVE Strip(_)
Strip(x) ==
    IF x = <<>> THEN x
    ELSE IF x[1] = " " THEN Strip(Tail(x))
    ELSE IF x[Len(x)] = " " THEN Strip(SubSeq(x, 1, Len(x) - 1))
    ELSE x

\* x.split(sep)[-1] for a one-character sep
RECURSIVE AfterLast(_, _)
AfterLast(x, sep) ==
    IF \E i \in 1..Len(x) : x[i] = sep
    THEN AfterLast(SubSeq(x, (CHOOSE i \in 1..Len(x) : x[i] = sep) + 1, Len(x)), sep)
    ELSE x

DotCsv == <<".", "c", "s", "v">>
DotXls == <<".", "x", "l", "s">>
DotXlsx == <<".", "x", "l", "s", "x">>
DotPdf == <<".", "p", "d", "f">>

(***************************************************************************)
(* ocr.py: gpa_to_grade                                                    *)
(***************************************************************************)
\* float(text) succeeds: digits, optionally a point and one or two digits
TextIsFloat(x) ==
    \/ AllDigits(x)
    \/ \E i \in 2..(Len(x) - 1) :
        /\ x[i] = "."
        /\ AllDigits(SubSeq(x, 1, i - 1))
        /\ AllDigits(SubSeq(x, i + 1, Len(x)))
        /\ Len(x) - i <= 2

\* float(text) in hundredths
TextFloat(x) ==
    IF AllDigits(x) THEN 100 * DigitsVal(x)
    ELSE LET i == CHOOSE k \in 2..(Len(x) - 1) : x[k] = "."
             frac == SubSeq(x, i + 1, Len(x))
         IN  100 * DigitsVal(SubSeq(x, 1, i - 1))
               + (IF Len(frac) = 1 THEN 10 * DigitsVal(frac) ELSE DigitsVal(frac))

FloatOk(v) ==
    \/ v.t \in {"int", "float"}
    \/ v.t = "str" /\ TextIsFloat(v.s)

\* float(v) in hundredths
FloatOf(v) ==
    CASE v.t = "int" -> 100 * v.n
      [] v.t = "float" -> v.n
      [] v.t = "str" -> TextFloat(v.s)

gpa_to_grade(gpa) ==
    IF gpa = PyNone \/ gpa = NA THEN NA
    ELSE IF ~FloatOk(gpa) THEN NA
    ELSE LET g == FloatOf(gpa)
         IN  IF g >= 360 THEN StrV(<<"A">>)
             ELSE IF g >= 320 THEN StrV(<<"B", "+">>)
             ELSE IF g >= 280 THEN StrV(<<"B">>)
             ELSE IF g >= 240 THEN StrV(<<"C", "+">>)
             ELSE IF g >= 200 THEN StrV(<<"C">>)
             ELSE IF g >= 160 THEN StrV(<<"D", "+">>)
             ELSE IF g >= 120 THEN StrV(<<"D">>)
             ELSE StrV(<<"E">>)

(***************************************************************************)
(* ocr.py: extract_data_from_excel                                         *)
(***************************************************************************)
\* A marksheet dict; a key the dict does not hold is Absent.
NoInfo == [t |-> "absent", s |-> <<>>, gpa |-> Absent]

ExcelInfo == [t |-> "str", s |-> <<"E", "x", "c", "e", "l">>, gpa |-> Absent]

ErrorResult ==
    [error |-> TRUE, subjects |-> <<>>, obtained_marks |-> Absent,
     total_marks |-> Absent, percentage |-> Absent, pass_fail |-> Absent,
     overall_grade |-> Absent, other_info |-> NoInfo, source_type |-> "absent",
     academic_year |-> Absent, session |-> Absent]

\* one iteration of `for _, row in df.iterrows()`
ExcelRow(row) ==
    LET obtained0 == Get(row.obtained, NA)
        maximum0 == Get(row.maximum, IntV(100))
        obtained1 == IF InGradeTable(obtained0)
                     THEN IntV(GRADE_TO_MARKS[obtained0.s])
                     ELSE obtained0
        maximum == IF IntOk(maximum0) THEN IntOf(maximum0) ELSE 100
        obtained2 == IF obtained1 = NA THEN IntV(0) ELSE obtained1
    IN  [raises |-> ~IntOk(obtained2),
         theory_marks |-> IF IntOk(obtained2) THEN IntOf(obtained2) ELSE 0,
         total_marks |-> maximum,
         grade |-> NA]

ExcelSubjects(rows) ==
    [i \in 1..Len(rows) |->
        [theory_marks |-> ExcelRow(rows[i]).theory_marks,
         total_marks |-> ExcelRow(rows[i]).total_marks,
         grade |-> ExcelRow(rows[i]).grade]]

RECURSIVE SumTheory(_)
SumTheory(subjects) ==
    IF subjects = <<>> THEN 0
    ELSE subjects[1].theory_marks + SumTheory(Tail(subjects))

RECURSIVE SumMaximum(_)
SumMaximum(subjects) ==
    IF subjects = <<>> THEN 0
    ELSE subjects[1].total_marks + SumMaximum(Tail(subjects))

\* pd.read_csv / pd.read_excel accept the bytes: the reader is chosen by the
\* case-sensitive test filename.endswith(".csv")
ReaderAccepts(sheet, filename) ==
    IF EndsWith(filename, DotCsv) THEN sheet.format = "csv" ELSE sheet.format = "excel"

extract_data_from_excel(sheet, filename) ==
    IF ~ReaderAccepts(sheet, filename) THEN ErrorResult
    ELSE IF \E i \in 1..Len(sheet.rows) : ExcelRow(sheet.rows[i]).raises THEN ErrorResult
    ELSE LET subjects == ExcelSubjects(sheet.rows)
             total_obtained == SumTheory(subjects)
             total_marks == SumMaximum(subjects)
             percentage == IF total_marks # 0
                           THEN FloatV(Round2(total_obtained, total_marks))
                           ELSE NA
         IN  [error |-> FALSE,
              subjects |-> subjects,
              obtained_marks |-> IntV(total_obtained),
              total_marks |-> IntV(total_marks),
              percentage |-> percentage,
              pass_fail |-> IF percentage # NA /\ percentage.n >= 4000
                            THEN PassV ELSE FailV,
              overall_grade |-> NA,
              other_info |-> ExcelInfo,
              source_type |-> "absent",
              academic_year |-> NA,
              session |-> Absent]

(***************************************************************************)
(* ocr.py: extract_marksheet, normalisation of one page (lines 218-299)    *)
(***************************************************************************)
\* bool(v)
Truthy(v) ==
    CASE v.t \in {"none", "absent"} -> FALSE
      [] v.t = "str" -> v.s # <<>>
      [] v.t \in {"int", "float"} -> v.n # 0
      [] OTHER -> TRUE

RECURSIVE NatText(_)
NatText(n) ==
    IF n < 10 THEN <<CHOOSE c \in Digits : DigitVal(c) = n>>
    ELSE NatText(n \div 10) \o <<CHOOSE c \in Digits : DigitVal(c) = n % 10>>

\* str(v) of a text or a non-negative integer
PyStr(v) == IF v.t = "int" THEN StrV(NatText(v.n)) ELSE v

\* the grade -> marks reconciliation of one subject (lines 227-245)
SubjectMarks(subj) ==
    LET grade == Get(subj.grade, NA)
        theory == Get(subj.theory_marks, NA)
        converted ==
            IF InGradeTable(theory) THEN IntV(GRADE_TO_MARKS[theory.s])
            ELSE IF theory \in {NA, PyNone, Empty}
                 THEN IF InGradeTable(grade) THEN IntV(GRADE_TO_MARKS[grade.s])
                      ELSE IntV(0)
                 ELSE theory
    IN  IF converted.t \in {"int", "float"} THEN IntOf(converted) ELSE 0

NormalizeSubject(subj) ==
    LET maximum == Get(subj.total_marks, IntV(100))
    IN  [theory_marks |-> SubjectMarks(subj),
         total_marks |-> IF IntOk(maximum) THEN IntOf(maximum) ELSE 100,
         grade |-> Get(subj.grade, NA)]

\* `for subj in cleaned.get("subjects", [])` raises: null is not iterable, and
\* an element that is no dict has no .get
SubjectsRaise(cleaned) ==
    \/ cleaned.subjects.t = "none"
    \/ \E i \in 1..Len(cleaned.subjects.items) : ~cleaned.subjects.items[i].dict

\* lines 269-274
GpaValue(other_info) ==
    IF other_info.t = "dict" /\ other_info.gpa # Absent THEN other_info.gpa
    ELSE IF other_info.t = "str" /\ Contains(other_info.s, <<"G", "P", "A">>)
         THEN StrV(Strip(AfterLast(other_info.s, ":")))
         ELSE PyNone

\* lines 282-291
SourceType(subjects, other_info) ==
    IF other_info.t = "dict" /\ other_info.gpa # Absent THEN "gpa"
    ELSE IF \E i \in 1..Len(subjects) : subjects[i].grade \notin {PyNone, Empty, NA}
         THEN "grade"
         ELSE "marks"

\* the body of `if cleaned:` for a page whose subjects can be iterated
NormalizePage(cleaned) ==
    LET subjects == [i \in 1..Len(cleaned.subjects.items) |->
                        NormalizeSubject(cleaned.subjects.items[i])]
        total_obtained == SumTheory(subjects)
        total_marks == SumMaximum(subjects)
        recompute == total_marks > 0
        percentage == IF recompute THEN Round2(total_obtained, total_marks) ELSE 0
        gpa_value == GpaValue(cleaned.other_info)
        session_val == IF Truthy(cleaned.academic_year) THEN cleaned.academic_year
                       ELSE IF Truthy(cleaned.session) THEN cleaned.session
                       ELSE PyNone
    IN  [error |-> FALSE,
         subjects |-> subjects,
         obtained_marks |-> IF recompute THEN IntV(total_obtained)
                            ELSE cleaned.obtained_marks,
         total_marks |-> IF recompute THEN IntV(total_marks) ELSE cleaned.total_marks,
         percentage |-> IF recompute THEN FloatV(percentage) ELSE cleaned.percentage,
         pass_fail |-> IF recompute
                       THEN (IF percentage >= 4000 THEN PassV ELSE FailV)
                       ELSE cleaned.pass_fail,
         overall_grade |-> IF Truthy(gpa_value) THEN gpa_to_grade(gpa_value)
                           ELSE cleaned.overall_grade,
         other_info |-> cleaned.other_info,
         source_type |-> SourceType(subjects, cleaned.other_info),
         academic_year |-> cleaned.academic_year,
         session |-> IF Truthy(session_val) THEN PyStr(session_val)
                     ELSE cleaned.session]

\* bool(cleaned): a dict with at least one key
NonEmptyDict(cleaned) ==
    \/ cleaned.subjects.t # "absent"
    \/ cleaned.other_info.t # "absent"
    \/ \E v \in {cleaned.obtained_marks, cleaned.total_marks, cleaned.percentage,
                 cleaned.pass_fail, cleaned.overall_grade, cleaned.academic_year,
                 cleaned.session} : v # Absent

\* clean_json_response: the parsed object, or None when the reply holds no
\* {...} span or the span is no JSON
CleanedOk(raw_data) == raw_data.kind = "json"

(***************************************************************************)
(* Inputs of /api/extract-marksheet                                        *)
(***************************************************************************)
GradeAPlus == StrV(<<"A", "+">>)
GradeB == StrV(<<"B">>)
GradeF == StrV(<<"F">>)
LabelX == StrV(<<"X">>)
Text85 == StrV(<<"8", "5">>)
Text50 == StrV(<<"5", "0">>)
TextAbc == StrV(<<"a", "b", "c">>)

\* a cell of the "Marks Obtained" column (Absent: the sheet has no such column)
ObtainedCells == {GradeAPlus, GradeF, LabelX, NA, Text85, IntV(40), NaN}

\* a cell of the "Total Marks" column
MaximumCells == {IntV(100), IntV(50), IntV(0), TextAbc, NaN}

SeqsUpTo(S, n) == UNION {[1..k -> S] : k \in 0..n}

SheetRows ==
    UNION {[1..k -> [obtained : O, maximum : M]] :
             k \in 0..MaxRows,
             O \in {ObtainedCells, {Absent}},
             M \in {MaximumCells, {Absent}}}

FileA(ext) == <<"a">> \o ext

CsvName == FileA(DotCsv)
CsvUpperName == FileA(<<".", "C", "S", "V">>)
XlsxName == FileA(DotXlsx)
PdfName == FileA(DotPdf)
PngName == FileA(<<".", "p", "n", "g">>)

NoSheet == [format |-> "none", rows |-> <<>>]

\* the uploads: has_file ("file" in request.files), the filename, the sheet
\* a spreadsheet holds, the pages a PDF converts to (-1: conversion raises),
\* and whether PIL can open an image
BaseUpload ==
    [has_file |-> TRUE, filename |-> PngName, sheet |-> NoSheet, pages |-> 1,
     opens |-> TRUE]

Uploads ==
    {[BaseUpload EXCEPT !.has_file = FALSE],
     [BaseUpload EXCEPT !.filename = <<>>],
     BaseUpload,
     [BaseUpload EXCEPT !.opens = FALSE]}
    \cup {[BaseUpload EXCEPT !.filename = PdfName, !.pages = n] : n \in (-1)..MaxPages}
    \cup {[BaseUpload EXCEPT !.filename = CsvName,
                             !.sheet = [format |-> "csv", rows |-> r]] : r \in SheetRows}
    \cup {[BaseUpload EXCEPT !.filename = XlsxName,
                             !.sheet = [format |-> "excel", rows |-> r]] : r \in SheetRows}
    \cup {[BaseUpload EXCEPT !.filename = f,
                             !.sheet = [format |-> "csv", rows |-> r]] :
             f \in {CsvUpperName, XlsxName}, r \in SeqsUpTo({[obtained |-> Text85, maximum |-> IntV(100)]}, 1)}

\* subjects as the vision model may write them
SubjectOf(g, t, m) == [dict |-> TRUE, grade |-> g, theory_marks |-> t, total_marks |-> m]

Subjects ==
    {SubjectOf(g, t, IntV(100)) :
        g \in {GradeB, NA},
        t \in {NA, PyNone, IntV(40), Text85, GradeAPlus, FloatV(7250)}}
    \cup {SubjectOf(Absent, IntV(40), m) : m \in {Absent, IntV(0), Text50, TextAbc, PyNone}}
    \cup {SubjectOf(g, Empty, IntV(50)) : g \in {LabelX, PyNone, Empty}}
    \cup {SubjectOf(Absent, LabelX, IntV(50))}

NotADict == [dict |-> FALSE, grade |-> Absent, theory_marks |-> Absent, total_marks |-> Absent]

SubjectLists ==
    {[t |-> "list", items |-> l] : l \in SeqsUpTo(Subjects, MaxSubjects)}
    \cup {[t |-> "list", items |-> <<NotADict>>],
          [t |-> "none", items |-> <<>>],
          [t |-> "absent", items |-> <<>>]}

EmptyObject ==
    [subjects |-> [t |-> "absent", items |-> <<>>], obtained_marks |-> Absent,
     total_marks |-> Absent, percentage |-> Absent, pass_fail |-> Absent,
     overall_grade |-> Absent, other_info |-> NoInfo, academic_year |-> Absent,
     session |-> Absent]

GpaText == [t |-> "str", s |-> <<"G", "P", "A", ":", " ", "3", ".", "7">>, gpa |-> Absent]
PlainText == [t |-> "str", s |-> <<"n", "o", "t", "e">>, gpa |-> Absent]
GpaDict == [t |-> "dict", s |-> <<>>, gpa |-> FloatV(310)]
PlainDict == [t |-> "dict", s |-> <<>>, gpa |-> Absent]

\* the page-level fields the vision model may add around the subjects
PageFields ==
    {EmptyObject,
     [EmptyObject EXCEPT !.other_info = GpaText],
     [EmptyObject EXCEPT !.other_info = PlainText, !.overall_grade = GradeB],
     [EmptyObject EXCEPT !.other_info = GpaDict, !.session = StrV(<<"2", "4">>)],
     [EmptyObject EXCEPT !.other_info = PlainDict, !.academic_year = IntV(2024)],
     [EmptyObject EXCEPT !.obtained_marks = IntV(450), !.total_marks = IntV(500),
                         !.percentage = IntV(12), !.pass_fail = PassV]}

Objects == {[f EXCEPT !.subjects = l] : f \in PageFields, l \in SubjectLists}

\* what extract_data_from_image returns or does: "raise" (the API call fails),
\* "empty" (None or ""), "prose" (no {...} span), "badjson", "json"
ReplyOf(kind, obj) == [kind |-> kind, obj |-> obj]

NoReply == ReplyOf("none", EmptyObject)

OneSubject == [t |-> "list", items |-> <<SubjectOf(GradeB, IntV(40), IntV(50))>>]

FewReplies ==
    {ReplyOf(k, EmptyObject) : k \in {"raise", "empty", "prose", "badjson", "json"}}
    \cup {ReplyOf("json", [EmptyObject EXCEPT !.subjects = OneSubject]),
          ReplyOf("json", [EmptyObject EXCEPT !.other_info = GpaDict])}

\* single-page uploads draw from every object, longer ones from the few
Replies(n) ==
    IF n = 1 THEN FewReplies \cup {ReplyOf("json", o) : o \in Objects} ELSE FewReplies

(***************************************************************************)
(* ocr.py: extract_marksheet                                               *)
(***************************************************************************)
NoResponse == [status |-> 0, body |-> [kind |-> "none"]]

\* no other request is in flight
NoRequest == [endpoint |-> "none"]
NoData == [t |-> "none"]
NoQuery == [kind |-> "none"]
Unhandled == [status |-> 500, body |-> [kind |-> "unhandled"]]
ErrorResponse(code, msg) == [status |-> code, body |-> [kind |-> "error", error |-> msg]]

MarksheetResponse(n, res) ==
    [status |-> 200, body |-> [kind |-> "marksheet", pages_processed |-> n, results |-> res]]

IsSpreadsheet(filename) ==
    \E ext \in {DotXls, DotXlsx, DotCsv} : EndsWith(Lower(filename), ext)

InitUpload ==
    /\ endpoint = "extract-marksheet"
    /\ pc = "start"
    /\ data = NoData
    /\ query = NoQuery
    /\ upload \in Uploads
    /\ images = 0
    /\ idx = 0
    /\ reply = NoReply
    /\ results = <<>>
    /\ calls = 0
    /\ response = NoResponse
    /\ globals = Loaded
    /\ parked = NoRequest

\* lines 179-185
RejectUpload ==
    /\ endpoint = "extract-marksheet"
    /\ pc = "start"
    /\ ~upload.has_file \/ upload.filename = <<>>
    /\ response' = IF ~upload.has_file THEN ErrorResponse(400, "No file uploaded")
                   ELSE ErrorResponse(400, "No file selected")
    /\ pc' = "done"
    /\ UNCHANGED <<endpoint, data, query, upload, images, idx, reply, results, calls>>
    /\ globals' = AfterStep(globals, endpoint)
    /\ UNCHANGED parked

\* lines 191-194
SpreadsheetBranch ==
    /\ endpoint = "extract-marksheet"
    /\ pc = "start"
    /\ upload.has_file /\ upload.filename # <<>>
    /\ IsSpreadsheet(upload.filename)
    /\ results' = <<[page |-> 1,
                     data |-> extract_data_from_excel(upload.sheet, upload.filename)]>>
    /\ response' = MarksheetResponse(1, results')
    /\ pc' = "done"
    /\ UNCHANGED <<endpoint, data, query, upload, images, idx, reply, calls>>
    /\ globals' = AfterStep(globals, endpoint)
    /\ UNCHANGED parked

\* lines 197-213
OpenImages ==
    /\ endpoint = "extract-marksheet"
    /\ pc = "start"
    /\ upload.has_file /\ upload.filename # <<>>
    /\ ~IsSpreadsheet(upload.filename)
    /\ IF EndsWith(Lower(upload.filename), DotPdf)
       THEN IF upload.pages < 0
            THEN pc' = "raised" /\ response' = Unhandled /\ images' = images
            ELSE pc' = "pages" /\ response' = response /\ images' = upload.pages
       ELSE IF ~upload.opens
            THEN pc' = "done" /\ response' = ErrorResponse(500, "Image error")
                 /\ images' = images
            ELSE pc' = "pages" /\ response' = response /\ images' = 1
    /\ UNCHANGED <<endpoint, data, query, upload, idx, reply, results, calls>>
    /\ globals' = AfterStep(globals, endpoint)
    /\ UNCHANGED parked

\* one iteration of `for idx, image in enumerate(images)` (lines 215-299)
ProcessPage ==
    /\ endpoint = "extract-marksheet"
    /\ pc = "pages"
    /\ idx < images
    /\ \E r \in Replies(images) :
        /\ reply' = r
        /\ calls' = calls + 1
        /\ IF r.kind = "raise"
              \/ (CleanedOk(r) /\ NonEmptyDict(r.obj) /\ SubjectsRaise(r.obj))
           THEN pc' = "raised" /\ response' = Unhandled /\ results' = results
                /\ idx' = idx
           ELSE /\ pc' = pc
                /\ response' = response
                /\ idx' = idx + 1
                /\ results' =
                     IF CleanedOk(r) /\ NonEmptyDict(r.obj)
                     THEN Append(results, [page |-> idx + 1, data |-> NormalizePage(r.obj)])
                     ELSE results
    /\ UNCHANGED <<endpoint, data, query, upload, images>>
    /\ globals' = AfterStep(globals, endpoint)
    /\ UNCHANGED parked

\* line 302
RespondPages ==
    /\ endpoint = "extract-marksheet"
    /\ pc = "pages"
    /\ idx = images
    /\ response' = MarksheetResponse(images, results)
    /\ pc' = "done"
    /\ UNCHANGED <<endpoint, data, query, upload, images, idx, reply, results, calls>>
    /\ globals' = AfterStep(globals, endpoint)
    /\ UNCHANGED parked

NextUpload ==
    \/ RejectUpload
    \/ SpreadsheetBranch
    \/ OpenImages
    \/ ProcessPage
    \/ RespondPages

SpecUpload == InitUpload /\ [][NextUpload]_vars

(***************************************************************************)
(* Claims about /api/extract-marksheet                                     *)
(***************************************************************************)
\* the marksheet results a 200 response of /api/extract-marksheet returns
ReturnedData ==
    IF response.body.kind = "marksheet"
    THEN {response.body.results[i].data : i \in 1..Len(response.body.results)}
    ELSE {}

IsNumber(v) == v.t \in {"int", "float"}

\* the number v in hundredths
Hundredths(v) == IF v.t = "int" THEN 100 * v.n ELSE v.n

\* C3: in every returned marksheet result whose total_marks is greater than 0,
\* percentage is obtained_marks / total_marks * 100 rounded to 2 decimals, taken
\* from the result's own obtained_marks and total_marks, and pass_fail is "Pass"
\* exactly when that percentage is at least 40, "Fail" otherwise.
C3_PercentageFromOwnTotals ==
    \A d \in ReturnedData :
        (~d.error /\ IsNumber(d.total_marks) /\ d.total_marks.n > 0) =>
            /\ d.obtained_marks.t = "int"
            /\ d.total_marks.t = "int"
            /\ IsNumber(d.percentage)
            /\ Hundredths(d.percentage) = Round2(d.obtained_marks.n, d.total_marks.n)
            /\ d.pass_fail = (IF Hundredths(d.percentage) >= 4000 THEN PassV ELSE FailV)

\* the mark the grade table gives a text label, 0 for a label it does not hold
LabelMark(label) == IF label \in DOMAIN GRADE_TO_MARKS THEN GRADE_TO_MARKS[label] ELSE 0

\* a text that is a label rather than a number or a missing-value marker
IsLabel(v) == v.t = "str" /\ ~TextIsInt(v.s) /\ v \notin {NA, Empty}

\* C4: grade-to-marks conversion is total on text labels in both extractors:
\* the ten labels have pairwise distinct marks, a known label yields its mark,
\* any other text label yields 0 for that subject, and the extraction returns a
\* normal result.
C4_GradeConversionTotal ==
    /\ \A g, h \in DOMAIN GRADE_TO_MARKS : g # h => GRADE_TO_MARKS[g] # GRADE_TO_MARKS[h]
    /\ (response.body.kind = "marksheet" /\ IsSpreadsheet(upload.filename)
          /\ ReaderAccepts(upload.sheet, upload.filename)
          /\ \A i \in 1..Len(upload.sheet.rows) :
                IsLabel(upload.sheet.rows[i].obtained) \/ upload.sheet.rows[i].obtained = NA) =>
            LET d == response.body.results[1].data
            IN  /\ ~d.error
                /\ Len(d.subjects) = Len(upload.sheet.rows)
                /\ \A i \in 1..Len(d.subjects) :
                      d.subjects[i].theory_marks = LabelMark(upload.sheet.rows[i].obtained.s)
    /\ (response.body.kind = "marksheet" /\ ~IsSpreadsheet(upload.filename) /\ images = 1
          /\ Len(response.body.results) = 1) =>
            LET d == response.body.results[1].data
                given == reply.obj.subjects.items
            IN  \A i \in 1..Len(given) :
                    IsLabel(given[i].theory_marks) =>
                        d.subjects[i].theory_marks = LabelMark(given[i].theory_marks.s)

\* C5: in every returned marksheet result obtained_marks is the sum of the
\* listed subjects' obtained marks and total_marks the sum of their maximum
\* marks, for any number of subjects including none; aggregates written by the
\* vision model are never returned in their place.
C5_TotalsAreSubjectSums ==
    \A d \in ReturnedData :
        ~d.error =>
            /\ d.obtained_marks = IntV(SumTheory(d.subjects))
            /\ d.total_marks = IntV(SumMaximum(d.subjects))

\* C6: every result in 'results', from the spreadsheet path or the vision
\* path, carries a source_type that is one of marks, grade, gpa.
C6_SourceTypeTagged ==
    \A d \in ReturnedData : d.source_type \in {"marks", "grade", "gpa"}

(***************************************************************************)
(* report.py: format_response_item, parse_report_sections                  *)
(***************************************************************************)
key_terms ==
    <<<<"S", "o", "c", "i", "a", "l", " ", "E", "n", "g", "a", "g", "e", "m", "e", "n", "t">>, <<"S", "e", "l", "f", "-", "E", "f", "f", "i", "c", "a", "c", "y">>, <<"T", "e", "m", "p", "e", "r", "a", "m", "e", "n", "t">>,
      <<"I", "n", "t", "e", "r", "n", "a", "l", "i", "z", "i", "n", "g">>, <<"S", "e", "l", "f", "-", "E", "s", "t", "e", "e", "m">>, <<"S", "c", "h", "o", "o", "l", " ", "R", "e", "f", "u", "s", "a", "l">>,
      <<"E", "m", "o", "t", "i", "o", "n", "a", "l", " ", "E", "x", "p", "r", "e", "s", "s", "i", "o", "n">>, <<"D", "e", "p", "e", "n", "d", "e", "n", "t", " ", "B", "e", "h", "a", "v", "i", "o", "r">>,
      <<"P", "a", "r", "e", "n", "t", "a", "l", " ", "R", "e", "i", "n", "f", "o", "r", "c", "e", "m", "e", "n", "t">>, <<"C", "o", "m", "m", "u", "n", "i", "c", "a", "t", "i", "o", "n">>,
      <<"I", "n", "d", "e", "p", "e", "n", "d", "e", "n", "c", "e">>, <<"S", "o", "c", "i", "a", "l", " ", "I", "n", "t", "e", "r", "a", "c", "t", "i", "o", "n">>>>

\* x.replace(old, new), every occurrence from the left
RECURSIVE Replace(_, _, _)
Replace(x, old, new) ==
    IF Len(x) < Len(old) THEN x
    ELSE IF SubSeq(x, 1, Len(old)) = old
         THEN new \o Replace(SubSeq(x, Len(old) + 1, Len(x)), old, new)
         ELSE <<x[1]>> \o Replace(Tail(x), old, new)

Bold(term) == <<"*", "*">> \o term \o <<"*", "*">>

RECURSIVE FormatFrom(_, _)
FormatFrom(item, k) ==
    IF k > Len(key_terms) THEN item
    ELSE LET term == key_terms[k]
         IN  FormatFrom(IF Contains(item, term) /\ ~Contains(item, Bold(term))
                        THEN Replace(item, term, Bold(term))
                        ELSE item,
                        k + 1)

format_response_item(item) == FormatFrom(item, 1)

SectionText(k) ==
    CASE k = "strengths" -> <<"s", "t", "r", "e", "n", "g", "t", "h", "s">>
      [] k = "weaknesses" -> <<"w", "e", "a", "k", "n", "e", "s", "s", "e", "s">>
      [] k = "recommendations" -> <<"r", "e", "c", "o", "m", "m", "e", "n", "d", "a", "t", "i", "o", "n", "s">>

\* f"No {k} identified"
Placeholder(k) == <<"N", "o", " ">> \o SectionText(k) \o <<" ", "i", "d", "e", "n", "t", "i", "f", "i", "e", "d">>

\* heading detection that looks for the weakness keywords first
WeaknessFirst(line) ==
    LET lower == Lower(line)
    IN  IF \/ Contains(lower, <<"w", "e", "a", "k", "n", "e", "s", "s">>)
           \/ Contains(lower, <<"a", "r", "e", "a", " ", "f", "o", "r", " ", "i", "m", "p", "r", "o", "v", "e", "m", "e", "n", "t">>)
           \/ Contains(lower, <<"a", "r", "e", "a", "s", " ", "f", "o", "r", " ", "i", "m", "p", "r", "o", "v", "e", "m", "e", "n", "t">>)
        THEN "weaknesses"
        ELSE IF Contains(lower, <<"s", "t", "r", "e", "n", "g", "t", "h">>) THEN "strengths"
        ELSE IF Contains(lower, <<"r", "e", "c", "o", "m", "m", "e", "n", "d", "a", "t", "i", "o", "n">>) THEN "recommendations"
        ELSE ""

\* the heading a stripped line announces, "" when it is a content line
HeadingOf(line) ==
    LET lower == Lower(line)
    IN  IF Contains(lower, <<"s", "t", "r", "e", "n", "g", "t", "h">>) THEN "strengths"
        ELSE IF \/ Contains(lower, <<"w", "e", "a", "k", "n", "e", "s", "s">>)
                \/ Contains(lower, <<"a", "r", "e", "a", " ", "f", "o", "r", " ", "i", "m", "p", "r", "o", "v", "e", "m", "e", "n", "t">>)
                \/ Contains(lower, <<"a", "r", "e", "a", "s", " ", "f", "o", "r", " ", "i", "m", "p", "r", "o", "v", "e", "m", "e", "n", "t">>)
             THEN "weaknesses"
        ELSE IF Contains(lower, <<"r", "e", "c", "o", "m", "m", "e", "n", "d", "a", "t", "i", "o", "n">>) THEN "recommendations"
        ELSE ""

\* the loop over text.split("\n"): the lines from i on, given current_section
\* and the sections collected so far
RECURSIVE ScanLines(_, _, _, _)
ScanLines(lines, i, current_section, sections) ==
    IF i > Len(lines) THEN sections
    ELSE LET line == Strip(lines[i])
         IN  IF line = <<>> THEN ScanLines(lines, i + 1, current_section, sections)
             ELSE IF HeadingOf(line) # ""
                  THEN ScanLines(lines, i + 1, HeadingOf(line), sections)
             ELSE IF current_section # ""
                  THEN ScanLines(lines, i + 1, current_section,
                           [sections EXCEPT ![current_section] =
                               Append(@, format_response_item(line))])
             ELSE ScanLines(lines, i + 1, current_section, sections)

\* the section as collected, without the [:3]
WholeSection(k, items) == IF items = <<>> THEN <<Placeholder(k)>> ELSE items

\* sections[k][:3], or the placeholder when nothing was collected
CapSection(k, items) ==
    IF items = <<>> THEN <<Placeholder(k)>>
    ELSE SubSeq(items, 1, IF Len(items) < 3 THEN Len(items) ELSE 3)

parse_report_sections(text) ==
    LET sections == ScanLines(text, 1, "",
                        [strengths |-> <<>>, weaknesses |-> <<>>, recommendations |-> <<>>])
    IN  [k \in {"strengths", "weaknesses", "recommendations"} |-> CapSection(k, sections[k])]

(***************************************************************************)
(* report.py: zodiac                                                       *)
(***************************************************************************)
\* x.split(sep) for a one-character sep
RECURSIVE Split(_, _)
Split(x, sep) ==
    IF \E i \in 1..Len(x) : x[i] = sep
    THEN LET i == CHOOSE k \in 1..Len(x) : x[k] = sep /\ \A j \in 1..(k - 1) : x[j] # sep
         IN  <<SubSeq(x, 1, i - 1)>> \o Split(SubSeq(x, i + 1, Len(x)), sep)
    ELSE <<x>>

IsLeap(year) == (year % 4 = 0 /\ year % 100 # 0) \/ year % 400 = 0

DaysIn(month, year) ==
    IF month = 2 THEN (IF IsLeap(year) THEN 29 ELSE 28)
    ELSE IF month \in {4, 6, 9, 11} THEN 30 ELSE 31

\* datetime.strptime(dob_str, "%Y-%m-%d") does not raise
DateOk(dob) ==
    /\ dob.t = "str"
    /\ LET p == Split(dob.s, "-")
       IN  /\ Len(p) = 3
           /\ Len(p[1]) = 4 /\ AllDigits(p[1]) /\ DigitsVal(p[1]) >= 1
           /\ Len(p[2]) \in {1, 2} /\ AllDigits(p[2]) /\ DigitsVal(p[2]) \in 1..12
           /\ Len(p[3]) \in {1, 2} /\ AllDigits(p[3])
           /\ DigitsVal(p[3]) \in 1..DaysIn(DigitsVal(p[2]), DigitsVal(p[1]))

\* (dob.month, dob.day)
MonthDay(dob) ==
    LET p == Split(dob.s, "-") IN <<DigitsVal(p[2]), DigitsVal(p[3])>>

\* tuple comparison a < b
TupleLess(a, b) == a[1] < b[1] \/ (a[1] = b[1] /\ a[2] < b[2])

\* tuple comparison a <= b
TupleLeq(a, b) == a[1] < b[1] \/ (a[1] = b[1] /\ a[2] <= b[2])

get_zodiac_and_famous_people(dob_str) ==
    IF ~DateOk(dob_str) THEN [sign |-> "Unknown", people |-> <<>>]
    ELSE LET md == MonthDay(dob_str)
             hits == {k \in 1..Len(ZODIAC_SIGNS) :
                        TupleLeq(ZODIAC_SIGNS[k].start, md) /\ TupleLeq(md, ZODIAC_SIGNS[k].end)}
         IN  IF hits = {} THEN [sign |-> "Unknown", people |-> <<>>]
             ELSE LET first == CHOOSE k \in hits : \A j \in hits : k <= j
                      sign == ZODIAC_SIGNS[first].sign
                  IN  [sign |-> sign, people |-> FAMOUS_ZODIACS[sign]]

(***************************************************************************)
(* report.py: request bodies and chat-pipeline replies                     *)
(***************************************************************************)
MaxLines == 4

NoList == [t |-> "absent", items |-> <<>>]
ListOf(items) == [t |-> "list", items |-> items]

NoReport ==
    [t |-> "absent", zodiac |-> Absent, strengths |-> NoList, weaknesses |-> NoList,
     recommendations |-> NoList]

NoPerson == [t |-> "absent", name |-> Absent, age |-> Absent, dob |-> Absent]

\* the JSON object {}: every key Absent
EmptyBody ==
    [t |-> "dict", dob |-> Absent, time_of_birth |-> Absent, place_of_birth |-> Absent,
     symptom_keywords |-> NoList, academic_records |-> NoList, report |-> NoReport,
     personal_info |-> NoPerson, question |-> Absent, conversation_history |-> NoList]

\* request.get_json() of a body that is null or not there
NullBody == [EmptyBody EXCEPT !.t = "none"]

\* `not data`
NoJson(d) == d.t = "none" \/ d = EmptyBody

\* what qa_chain({"query": query}) does: "raise", or a result dict whose "result"
\* is a text ("text": its lines, and the value json.loads gives the cleaned
\* text) or is missing ("noresult")
NoJsonValue == [t |-> "invalid"]

ChainReply(kind, lines, json) == [kind |-> kind, lines |-> lines, json |-> json]

ChainRaises == ChainReply("raise", <<>>, NoJsonValue)
ChainNoResult == ChainReply("noresult", <<>>, NoJsonValue)
ProseReply(lines) == ChainReply("text", lines, NoJsonValue)

(***************************************************************************)
(* report.py: /rag                                                         *)
(***************************************************************************)
RequiredFields == <<"dob", "time_of_birth", "place_of_birth", "symptom_keywords">>

HasField(d, field) ==
    CASE field = "dob" -> d.dob # Absent
      [] field = "time_of_birth" -> d.time_of_birth # Absent
      [] field = "place_of_birth" -> d.place_of_birth # Absent
      [] field = "symptom_keywords" -> d.symptom_keywords.t # "absent"

MissingFields(d) == {k \in 1..Len(RequiredFields) : ~HasField(d, RequiredFields[k])}

\* the last of the fields the body lacks
LastMissing(d) ==
    RequiredFields[CHOOSE k \in MissingFields(d) : \A j \in MissingFields(d) : j <= k]

\* the field the loop of lines 284-286 reports
FirstMissing(d) ==
    RequiredFields[CHOOSE k \in MissingFields(d) : \A j \in MissingFields(d) : k <= j]

\* lines 293-297
Symptoms(d) ==
    IF d.symptom_keywords.t \in {"dict", "list"} THEN d.symptom_keywords.items ELSE <<>>

\* building the query raises: ', '.join over a non-string, a record that is no
\* dict, a subject without 'subject' or 'percentage'
RagQueryRaises(d) ==
    \/ \E i \in 1..Len(Symptoms(d)) : Symptoms(d)[i].t # "str"
    \/ /\ d.academic_records.t = "list"
       /\ \E i \in 1..Len(d.academic_records.items) :
            ~d.academic_records.items[i].dict \/ ~d.academic_records.items[i].complete

RagQuery(d) ==
    LET z == get_zodiac_and_famous_people(d.dob)
    IN  [kind |-> "rag", dob |-> d.dob, time_of_birth |-> d.time_of_birth,
         place_of_birth |-> d.place_of_birth, zodiac |-> z.sign,
         famous_people |-> z.people, symptoms |-> Symptoms(d),
         academic |-> IF d.academic_records.t \in {"str", "list"}
                      THEN d.academic_records ELSE NoList]

NoAnswer == <<<<"N", "o", " ", "A", "I", " ", "r", "e", "s", "p", "o", "n", "s", "e", " ", "g", "e", "n", "e", "r", "a", "t", "e", "d", ".">>>>

\* result.get("result", "No AI response generated.").split("\n")
FullAnswer(r) == IF r.kind = "noresult" THEN NoAnswer ELSE r.lines

ReportResponse(q, full_answer) ==
    LET sections == parse_report_sections(full_answer)
    IN  [status |-> 200,
         body |-> [kind |-> "report",
                   strengths |-> sections["strengths"],
                   weaknesses |-> sections["weaknesses"],
                   recommendations |-> sections["recommendations"],
                   zodiac |-> q.zodiac,
                   famous_people |-> q.famous_people,
                   raw_answer |-> full_answer]]

\* the lines a report may be made of
ReportLines ==
    {<<>>, <<"S", "t", "r", "e", "n", "g", "t", "h", "s", ":">>, <<"2", ".", " ", "W", "E", "A", "K", "N", "E", "S", "S">>, <<"R", "e", "c", "o", "m", "m", "e", "n", "d", "a", "t", "i", "o", "n", "s">>, <<"a">>, <<" ", "b", " ">>}

OddLines ==
    {<<" ", " ">>, <<"A", "r", "e", "a", "s", " ", "f", "o", "r", " ", "I", "m", "p", "r", "o", "v", "e", "m", "e", "n", "t">>, <<"a", "r", "e", "a", " ", "f", "o", "r", " ", "i", "m", "p", "r", "o", "v", "e", "m", "e", "n", "t">>, <<"G", "o", "o", "d", " ", "C", "o", "m", "m", "u", "n", "i", "c", "a", "t", "i", "o", "n">>,
     <<"s", "t", "r", "e", "n", "g", "t", "h", "s", " ", "a", "n", "d", " ", "w", "e", "a", "k", "n", "e", "s", "s", "e", "s">>, <<"w", "e", "a", "k", " ", "r", "e", "c", "o", "m", "m", "e", "n", "d", "a", "t", "i", "o", "n", "s">>, <<"*", "*", "T", "e", "m", "p", "e", "r", "a", "m", "e", "n", "t", "*", "*", " ", "T", "e", "m", "p", "e", "r", "a", "m", "e", "n", "t">>}

SeqsFromOne(S, n) == UNION {[1..k -> S] : k \in 1..n}

HeadingLines == {<<"S", "t", "r", "e", "n", "g", "t", "h", "s", ":">>, <<"2", ".", " ", "W", "E", "A", "K", "N", "E", "S", "S">>, <<"R", "e", "c", "o", "m", "m", "e", "n", "d", "a", "t", "i", "o", "n", "s">>}

\* every text of up to MaxLines lines, the texts of a heading followed by
\* MaxLines content lines, and the short texts over the odd lines
ReportTexts ==
    SeqsFromOne(ReportLines, MaxLines)
    \cup {<<h>> \o c : h \in HeadingLines, c \in [1..MaxLines -> {<<"a">>, <<" ", "b", " ">>}]}
    \cup SeqsFromOne(ReportLines \cup OddLines, 2)

TextA == StrV(<<"a">>)
BirthDay == StrV(<<"2", "0", "1", "5", "-", "0", "3", "-", "2", "1">>)

RagBody ==
    [EmptyBody EXCEPT !.dob = BirthDay, !.time_of_birth = TextA, !.place_of_birth = TextA,
                      !.symptom_keywords = ListOf(<<TextA, TextA>>)]

GoodRecord == [dict |-> TRUE, complete |-> TRUE]

RagBodies ==
    {NullBody, EmptyBody, RagBody}
    \cup {[RagBody EXCEPT !.dob = IF "dob" \in m THEN Absent ELSE @,
                          !.time_of_birth = IF "time_of_birth" \in m THEN Absent ELSE @,
                          !.place_of_birth = IF "place_of_birth" \in m THEN Absent ELSE @,
                          !.symptom_keywords = IF "symptom_keywords" \in m THEN NoList ELSE @,
                          !.question = TextA] :
            m \in SUBSET {"dob", "time_of_birth", "place_of_birth", "symptom_keywords"}}
    \cup {[RagBody EXCEPT !.symptom_keywords = x] :
            x \in {[t |-> "dict", items |-> <<TextA>>], [t |-> "str", items |-> <<>>],
                   ListOf(<<TextA, IntV(3)>>), ListOf(<<>>)}}
    \cup {[RagBody EXCEPT !.academic_records = x] :
            x \in {[t |-> "str", items |-> <<>>], [t |-> "other", items |-> <<>>],
                   ListOf(<<GoodRecord>>), ListOf(<<[dict |-> FALSE, complete |-> FALSE]>>),
                   ListOf(<<GoodRecord, [dict |-> TRUE, complete |-> FALSE]>>)}}
    \cup {[RagBody EXCEPT !.dob = x] :
            x \in {StrV(<<"2", "0", "1", "5", "-", "1", "3", "-", "0", "1">>), StrV(<<"2", "1", "/", "0", "3", "/", "2", "0", "1", "5">>), IntV(2015), StrV(<<"2", "0", "1", "6", "-", "0", "2", "-", "2", "9">>)}}

\* the replies drawn for a body: every text for the plain body, a few otherwise
RagReplies(d) ==
    {ChainRaises, ChainNoResult}
    \cup {ProseReply(t) : t \in IF d = RagBody THEN ReportTexts
                                ELSE {<<<<"S", "t", "r", "e", "n", "g", "t", "h", "s", ":">>, <<"a">>>>}}

\* lines 277-286
RagReject ==
    /\ endpoint = "rag"
    /\ pc = "start"
    /\ NoJson(data) \/ MissingFields(data) # {}
    /\ response' = IF NoJson(data) THEN ErrorResponse(400, "No JSON data received")
                   ELSE ErrorResponse(400, "Missing required field: " \o FirstMissing(data))
    /\ pc' = "done"
    /\ UNCHANGED <<endpoint, data, query, reply, calls, ocrVars>>
    /\ globals' = AfterStep(globals, endpoint)
    /\ UNCHANGED parked

\* lines 288-343, and the except of lines 360-362
RagCall ==
    /\ endpoint = "rag"
    /\ pc = "start"
    /\ ~NoJson(data) /\ MissingFields(data) = {}
    /\ IF RagQueryRaises(data)
       THEN /\ response' = ErrorResponse(500, "Failed to generate report")
            /\ pc' = "done"
            /\ UNCHANGED <<query, reply, calls>>
       ELSE /\ query' = RagQuery(data)
            /\ calls' = calls + 1
            /\ \E r \in RagReplies(data) :
                /\ reply' = r
                /\ IF r.kind = "raise"
                   THEN response' = ErrorResponse(500, "Failed to generate report")
                        /\ pc' = "done"
                   ELSE response' = response /\ pc' = "called"
    /\ UNCHANGED <<endpoint, data, ocrVars>>
    /\ globals' = AfterStep(globals, endpoint)
    /\ UNCHANGED parked

\* lines 344-358
RagRespond ==
    /\ endpoint = "rag"
    /\ pc = "called"
    /\ response' = ReportResponse(query, FullAnswer(reply))
    /\ pc' = "done"
    /\ UNCHANGED <<endpoint, data, query, reply, calls, ocrVars>>
    /\ globals' = AfterStep(globals, endpoint)
    /\ UNCHANGED parked

(***************************************************************************)
(* Inputs of /discussion-questions                                         *)
(***************************************************************************)
MaxQuestions == 4

StrengthA == StrV(<<"*", "*", "C", "o", "m", "m", "u", "n", "i", "c", "a", "t", "i", "o", "n", "*", "*", " ", "s", "k", "i", "l", "l", "s", " ">>)
WeaknessA == StrV(<<"s", "h", "y", "n", "e", "s", "s">>)

ReportOf(s, w) ==
    [t |-> "dict", zodiac |-> StrV(<<"A", "r", "i", "e", "s">>), strengths |-> s, weaknesses |-> w,
     recommendations |-> ListOf(<<TextA>>)]

ItemLists ==
    {NoList, ListOf(<<>>), ListOf(<<StrengthA>>), ListOf(<<WeaknessA, TextA, TextA>>),
     ListOf(<<IntV(1)>>), ListOf(<<TextA, TextA, IntV(1)>>), [t |-> "none", items |-> <<>>]}

Reports ==
    {ReportOf(s, w) : s, w \in ItemLists}
    \cup {NoReport, [NoReport EXCEPT !.t = "none"], [NoReport EXCEPT !.t = "dict"],
          [NoReport EXCEPT !.t = "str"]}

PersonOf(name) == [t |-> "dict", name |-> name, age |-> IntV(9), dob |-> BirthDay]

Persons == {NoPerson, [NoPerson EXCEPT !.t = "none"], PersonOf(StrV(<<"A", "s", "h", "a">>)), PersonOf(Absent)}

QuestionBodies ==
    {NullBody, EmptyBody}
    \cup {[EmptyBody EXCEPT !.report = r, !.personal_info = p] : r \in Reports, p \in Persons}

QuestionLines ==
    {<<"1", ".", " ", "W", "h", "a", "t", " ", "d", "o", " ", "y", "o", "u", " ", "l", "i", "k", "e", "?">>, <<"-", " ", "H", "o", "w", " ", "a", "r", "e", " ", "y", "o", "u", " ", "t", "o", "d", "a", "y", "?">>, <<"o", "W", "h", "y", " ", "i", "s", " ", "t", "h", "a", "t", " ", "s", "o", "?">>, <<"2", ".", "S", "h", "o", "r", "t", "?">>,
     <<"3", ".", " ", "o", "k", "?">>, <<"H", "e", "r", "e", " ", "a", "r", "e", " ", "s", "o", "m", "e", " ", "q", "u", "e", "s", "t", "i", "o", "n", "s", ":">>}

QuestionBody ==
    [EmptyBody EXCEPT !.report = ReportOf(ListOf(<<StrengthA>>), NoList),
                      !.personal_info = PersonOf(StrV(<<"A", "s", "h", "a">>))]

FewQuestionReplies ==
    {ChainRaises, ChainNoResult,
     ProseReply(<<<<"3", ".", " ", "o", "k", "?">>>>),
     ProseReply(<<<<"1", ".", " ", "W", "h", "a", "t", " ", "d", "o", " ", "y", "o", "u", " ", "l", "i", "k", "e", "?">>, <<"-", " ", "H", "o", "w", " ", "a", "r", "e", " ", "y", "o", "u", " ", "t", "o", "d", "a", "y", "?">>, <<"o", "W", "h", "y", " ", "i", "s", " ", "t", "h", "a", "t", " ", "s", "o", "?">>>>)}

\* the replies drawn for a body: every text for the plain body, a few otherwise
QuestionReplies(d) ==
    IF d = QuestionBody
    THEN FewQuestionReplies
         \cup {ProseReply(l) : l \in SeqsFromOne(QuestionLines, MaxQuestions)}
         \cup {ProseReply([i \in 1..(MaxQuestions + 2) |-> <<"-", " ", "H", "o", "w", " ", "a", "r", "e", " ", "y", "o", "u", " ", "t", "o", "d", "a", "y", "?">>])}
    ELSE FewQuestionReplies

(***************************************************************************)
(* report.py: /discussion-questions                                        *)
(***************************************************************************)
\* bool(report_data) for data.get("report", {})
ReportGiven(report) ==
    \/ report.t = "str"
    \/ /\ report.t = "dict"
       /\ \/ report.zodiac # Absent
          \/ \E l \in {report.strengths, report.weaknesses, report.recommendations} :
                l.t # "absent"

\* x[:n]
Take(x, n) == SubSeq(x, 1, IF Len(x) < n THEN Len(x) ELSE n)

\* report_data.get(key, [])[:2] joined with '• ' raises
BulletsRaise(l) ==
    \/ l.t = "none"
    \/ \E i \in 1..Len(Take(l.items, 2)) : l.items[i].t # "str"

\* building report_summary (lines 165-177) raises
SummaryRaises(d) ==
    \/ d.personal_info.t = "none"
    \/ d.report.t # "dict"
    \/ BulletsRaise(d.report.strengths)
    \/ BulletsRaise(d.report.weaknesses)

\* `if strengths:` of get_short_fallback_questions
ListGiven(l) == l.t = "list" /\ l.items # <<>>

\* get_short_fallback_questions raises
FallbackRaises(d) ==
    \/ d.personal_info.t = "none"
    \/ d.report.t # "dict"
    \/ \E l \in {d.report.strengths, d.report.weaknesses} :
          ListGiven(l) /\ l.items[1].t # "str"

\* strengths[0].replace('**', '').strip().lower()
CleanItem(item) == Lower(Strip(Replace(item.s, <<"*", "*">>, <<>>)))

get_short_fallback_questions(report_data, personal_info) ==
    LET name == PyStr(Get(personal_info.name, StrV(<<"t", "h", "e", "r", "e">>))).s
        strength_text == IF ListGiven(report_data.strengths)
                         THEN <<"y", "o", "u", "r", " ">> \o CleanItem(report_data.strengths.items[1])
                         ELSE <<>>
        weakness_text == IF ListGiven(report_data.weaknesses)
                         THEN <<"a", "b", "o", "u", "t", " ">> \o CleanItem(report_data.weaknesses.items[1])
                         ELSE <<>>
        base_strength == IF strength_text # <<>>
                         THEN <<<<"W", "h", "a", "t", " ", "d", "o", " ", "y", "o", "u", " ", "e", "n", "j", "o", "y", " ", "a", "b", "o", "u", "t", " ">> \o strength_text \o <<"?">>,
                                <<"H", "o", "w", " ", "d", "o", "e", "s", " ">> \o strength_text \o <<" ", "m", "a", "k", "e", " ", "y", "o", "u", " ", "f", "e", "e", "l", "?">>>>
                         ELSE <<>>
        base_weakness == IF weakness_text # <<>>
                         THEN <<<<"H", "o", "w", " ", "d", "o", " ", "y", "o", "u", " ", "f", "e", "e", "l", " ", "a", "b", "o", "u", "t", " ">> \o weakness_text \o <<"?">>,
                                <<"W", "h", "a", "t", " ", "h", "e", "l", "p", "s", " ", "y", "o", "u", " ", "w", "i", "t", "h", " ">> \o weakness_text \o <<"?">>>>
                         ELSE <<>>
        general_questions ==
            <<<<"W", "h", "a", "t", " ", "m", "a", "k", "e", "s", " ", "y", "o", "u", " ", "h", "a", "p", "p", "y", ",", " ">> \o name \o <<"?">>,
              <<"W", "h", "a", "t", "'", "s", " ", "y", "o", "u", "r", " ", "f", "a", "v", "o", "r", "i", "t", "e", " ", "t", "h", "i", "n", "g", " ", "t", "o", " ", "d", "o", "?">>,
              <<"W", "h", "o", " ", "d", "o", " ", "y", "o", "u", " ", "l", "i", "k", "e", " ", "s", "p", "e", "n", "d", "i", "n", "g", " ", "t", "i", "m", "e", " ", "w", "i", "t", "h", "?">>,
              <<"W", "h", "a", "t", " ", "a", "r", "e", " ", "y", "o", "u", " ", "g", "o", "o", "d", " ", "a", "t", "?">>>>
    IN  Take(base_strength \o base_weakness \o general_questions, 5)

\* line.startswith(f"{i}.") for some i in range(1, 10)
Numbered(line) == Len(line) >= 2 /\ line[1] \in (Digits \ {"0"}) /\ line[2] = "."

\* line.split('.', 1)[1]
AfterFirstDot(line) ==
    LET i == CHOOSE k \in 1..Len(line) : line[k] = "." /\ \A j \in 1..(k - 1) : line[j] # "."
    IN  SubSeq(line, i + 1, Len(line))

Bullet == "o"

\* the question a line of the reply holds, <<>> when it holds none (lines 205-216)
QuestionOf(raw) ==
    LET line == Strip(raw)
    IN  IF line = <<>> THEN <<>>
        ELSE IF Numbered(line)
             THEN LET question == IF Contains(line, <<".", " ">>) THEN Strip(AfterFirstDot(line))
                                  ELSE line
                  IN  IF Len(question) > 5 THEN question ELSE <<>>
        ELSE IF line[1] = "-" \/ line[1] = Bullet
             THEN LET question == Strip(Tail(line))
                  IN  IF Len(question) > 5 THEN question ELSE <<>>
        ELSE <<>>

RECURSIVE ParsedQuestions(_)
ParsedQuestions(lines) ==
    IF lines = <<>> THEN <<>>
    ELSE (IF QuestionOf(lines[1]) # <<>> THEN <<QuestionOf(lines[1])>> ELSE <<>>)
            \o ParsedQuestions(Tail(lines))

\* the parsed questions alone, however few
ParsedOnly(lines, report_data, personal_info) == Take(ParsedQuestions(lines), 5)

\* lines 202-222, for the lines of result.get("result", "")
QuestionsFromReply(lines, report_data, personal_info) ==
    LET questions == ParsedQuestions(lines)
    IN  Take(IF Len(questions) < 3
             THEN get_short_fallback_questions(report_data, personal_info)
             ELSE questions, 5)

\* week_seed(): the ISO week of the day the request is served
WeekTags == {"2025-W36", "2025-W37"}

QuestionsResponse(questions, week) ==
    [status |-> 200, body |-> [kind |-> "questions", questions |-> questions, week_tag |-> week]]

QuestionsFailed == ErrorResponse(500, "Failed to generate discussion questions")

\* result.get("result", "").split("\n")
ReplyLines(r) == IF r.kind = "noresult" THEN <<<<>>>> ELSE r.lines

\* lines 368-378
QuestionsReject ==
    /\ endpoint = "discussion-questions"
    /\ pc = "start"
    /\ NoJson(data) \/ ~ReportGiven(data.report)
    /\ response' = IF NoJson(data) THEN ErrorResponse(400, "No JSON data received")
                   ELSE ErrorResponse(400, "Missing required field: report")
    /\ pc' = "done"
    /\ UNCHANGED <<endpoint, data, query, reply, calls, ocrVars>>
    /\ globals' = AfterStep(globals, endpoint)
    /\ UNCHANGED parked

\* the responses of lines 380-392 once the questions are to be the fallback ones
FallbackOutcome(d, week) ==
    IF FallbackRaises(d) THEN QuestionsFailed
    ELSE QuestionsResponse(get_short_fallback_questions(d.report, d.personal_info), week)

\* generate_discussion_questions up to the call of qa_chain (lines 163-198)
QuestionsCall ==
    /\ endpoint = "discussion-questions"
    /\ pc = "start"
    /\ ~NoJson(data) /\ ReportGiven(data.report)
    /\ \E week \in WeekTags :
        IF SummaryRaises(data)
        THEN /\ response' = FallbackOutcome(data, week)
             /\ pc' = "done"
             /\ UNCHANGED <<query, reply, calls>>
        ELSE /\ query' = [kind |-> "questions", report |-> data.report,
                          personal_info |-> data.personal_info]
             /\ calls' = calls + 1
             /\ \E r \in QuestionReplies(data) :
                 /\ reply' = r
                 /\ IF r.kind = "raise"
                    THEN response' = FallbackOutcome(data, week) /\ pc' = "done"
                    ELSE response' = response /\ pc' = "called"
    /\ UNCHANGED <<endpoint, data, ocrVars>>
    /\ globals' = AfterStep(globals, endpoint)
    /\ UNCHANGED parked

\* lines 199-222 and 382-388
QuestionsRespond ==
    /\ endpoint = "discussion-questions"
    /\ pc = "called"
    /\ \E week \in WeekTags :
        response' =
            IF Len(ParsedQuestions(ReplyLines(reply))) < 3 /\ FallbackRaises(data)
            THEN QuestionsFailed
            ELSE QuestionsResponse(
                    QuestionsFromReply(ReplyLines(reply), data.report, data.personal_info), week)
    /\ pc' = "done"
    /\ UNCHANGED <<endpoint, data, query, reply, calls, ocrVars>>
    /\ globals' = AfterStep(globals, endpoint)
    /\ UNCHANGED parked

(***************************************************************************)
(* report.py: /discussion-followup and /discussion-free                    *)
(***************************************************************************)
Conversational == {"discussion-followup", "discussion-free"}

\* JSON values of the reply: json.loads of the cleaned text (lines 449-459)
\* raises ("invalid"), gives a value that is no object ("other"), or an object
JsonOther == [t |-> "other"]
JsonDict(answer, questions) == [t |-> "dict", answer |-> answer, questions |-> questions]

\* a "questions" value: a list (items), a string (s), or absent, null, an
\* object, a number
QList(items) == [t |-> "list", items |-> items, s |-> <<>>]
QText(s) == [t |-> "str", items |-> <<>>, s |-> s]
QOther(t) == [t |-> t, items |-> <<>>, s |-> <<>>]

\* the default texts, without the emoji the source strings carry
DefaultAnswer(ep) ==
    IF ep = "discussion-followup"
    THEN StrV(<<"T", "h", "a", "t", "'", "s", " ", "r", "e", "a", "l", "l", "y", " ", "i", "n", "t", "e", "r", "e", "s", "t", "i", "n", "g", "!", " ", "I", "'", "d", " ", "l", "o", "v", "e", " ", "t", "o", " ", "h", "e", "a", "r", " ", "m", "o", "r", "e", " ", "a", "b", "o", "u", "t", " ", "t", "h", "a", "t", ".">>)
    ELSE StrV(<<"T", "h", "a", "t", "'", "s", " ", "a", " ", "g", "r", "e", "a", "t", " ", "q", "u", "e", "s", "t", "i", "o", "n", "!", " ", "L", "e", "t", "'", "s", " ", "e", "x", "p", "l", "o", "r", "e", " ", "t", "h", "a", "t", " ", "t", "o", "g", "e", "t", "h", "e", "r", ".">>)

DefaultQuestions(ep) ==
    IF ep = "discussion-followup"
    THEN <<StrV(<<"C", "a", "n", " ", "y", "o", "u", " ", "t", "e", "l", "l", " ", "m", "e", " ", "m", "o", "r", "e", " ", "a", "b", "o", "u", "t", " ", "t", "h", "a", "t", "?">>),
           StrV(<<"W", "h", "a", "t", " ", "m", "a", "d", "e", " ", "y", "o", "u", " ", "f", "e", "e", "l", " ", "t", "h", "a", "t", " ", "w", "a", "y", "?">>),
           StrV(<<"H", "o", "w", " ", "w", "o", "u", "l", "d", " ", "y", "o", "u", " ", "l", "i", "k", "e", " ", "t", "o", " ", "b", "u", "i", "l", "d", " ", "o", "n", " ", "t", "h", "i", "s", " ", "s", "t", "r", "e", "n", "g", "t", "h", "?">>)>>
    ELSE <<StrV(<<"C", "a", "n", " ", "y", "o", "u", " ", "t", "e", "l", "l", " ", "m", "e", " ", "m", "o", "r", "e", " ", "a", "b", "o", "u", "t", " ", "w", "h", "a", "t", " ", "y", "o", "u", "'", "r", "e", " ", "t", "h", "i", "n", "k", "i", "n", "g", "?">>),
           StrV(<<"W", "h", "a", "t", " ", "m", "a", "d", "e", " ", "y", "o", "u", " ", "c", "u", "r", "i", "o", "u", "s", " ", "a", "b", "o", "u", "t", " ", "t", "h", "i", "s", "?">>),
           StrV(<<"H", "o", "w", " ", "d", "o", " ", "y", "o", "u", " ", "f", "e", "e", "l", " ", "a", "b", "o", "u", "t", " ", "t", "h", "i", "s", " ", "t", "o", "p", "i", "c", "?">>)>>

PadQuestion == StrV(<<"W", "h", "a", "t", " ", "a", "r", "e", " ", "y", "o", "u", "r", " ", "t", "h", "o", "u", "g", "h", "t", "s", " ", "a", "b", "o", "u", "t", " ", "t", "h", "a", "t", "?">>)

DiscussionResponse(answer, questions) ==
    [status |-> 200, body |-> [kind |-> "discussion", answer |-> answer, questions |-> questions]]

\* the payload of the outer except (lines 505-514, 625-634)
DefaultPayload(ep) ==
    DiscussionResponse(
        IF ep = "discussion-followup"
        THEN StrV(<<"T", "h", "a", "t", "'", "s", " ", "r", "e", "a", "l", "l", "y", " ", "i", "n", "t", "e", "r", "e", "s", "t", "i", "n", "g", "!", " ", "T", "h", "a", "n", "k", "s", " ", "f", "o", "r", " ", "s", "h", "a", "r", "i", "n", "g", ".", " ", "I", "'", "d", " ", "l", "o", "v", "e", " ", "t", "o", " ", "h", "e", "a", "r", " ", "m", "o", "r", "e", " ", "a", "b", "o", "u", "t", " ", "y", "o", "u", "r", " ", "e", "x", "p", "e", "r", "i", "e", "n", "c", "e", "s", " ", "a", "n", "d", " ", "t", "h", "o", "u", "g", "h", "t", "s", ".">>)
        ELSE StrV(<<"T", "h", "a", "t", "'", "s", " ", "a", " ", "r", "e", "a", "l", "l", "y", " ", "g", "o", "o", "d", " ", "q", "u", "e", "s", "t", "i", "o", "n", "!", " ", "I", "'", "d", " ", "l", "o", "v", "e", " ", "t", "o", " ", "e", "x", "p", "l", "o", "r", "e", " ", "t", "h", "a", "t", " ", "w", "i", "t", "h", " ", "y", "o", "u", ".", " ", "Y", "o", "u", "r", " ", "c", "u", "r", "i", "o", "s", "i", "t", "y", " ", "i", "s", " ", "w", "o", "n", "d", "e", "r", "f", "u", "l", "!">>),
        QList(IF ep = "discussion-followup"
              THEN <<StrV(<<"C", "a", "n", " ", "y", "o", "u", " ", "t", "e", "l", "l", " ", "m", "e", " ", "m", "o", "r", "e", " ", "a", "b", "o", "u", "t", " ", "t", "h", "a", "t", "?">>),
                     StrV(<<"W", "h", "a", "t", " ", "m", "a", "d", "e", " ", "y", "o", "u", " ", "f", "e", "e", "l", " ", "t", "h", "a", "t", " ", "w", "a", "y", "?">>),
                     StrV(<<"H", "o", "w", " ", "w", "o", "u", "l", "d", " ", "y", "o", "u", " ", "l", "i", "k", "e", " ", "t", "o", " ", "b", "u", "i", "l", "d", " ", "o", "n", " ", "t", "h", "i", "s", "?">>)>>
              ELSE DefaultQuestions(ep)))

(***************************************************************************)
(* Inputs of /discussion-followup and /discussion-free                     *)
(***************************************************************************)
MaxHistory == 5

Turn(role, text) == [dict |-> TRUE, role |-> role, text |-> text]

Turns ==
    {Turn(StrV(<<"u", "s", "e", "r">>), StrV(<<"h", "i">>)), Turn(StrV(<<"a", "s", "s", "i", "s", "t", "a", "n", "t">>), StrV(<<"h", "e", "l", "l", "o">>)),
     Turn(Absent, Absent)}

NotATurn == [dict |-> FALSE, role |-> Absent, text |-> Absent]

Histories ==
    {ListOf(h) : h \in SeqsUpTo(Turns, MaxHistory)}
    \cup {NoList, [t |-> "none", items |-> <<>>], ListOf(<<NotATurn>>),
          ListOf(<<NotATurn>> \o [i \in 1..4 |-> Turn(StrV(<<"u", "s", "e", "r">>), StrV(<<"h", "i">>))])}

DiscussionBody ==
    [EmptyBody EXCEPT !.question = StrV(<<"W", "h", "y", "?">>),
                      !.report = ReportOf(ListOf(<<StrengthA>>), ListOf(<<WeaknessA>>)),
                      !.personal_info = PersonOf(StrV(<<"A", "s", "h", "a">>)),
                      !.conversation_history = ListOf(<<Turn(StrV(<<"u", "s", "e", "r">>), StrV(<<"h", "i">>))>>)]

DiscussionBodies ==
    {NullBody, EmptyBody, DiscussionBody}
    \cup {[DiscussionBody EXCEPT !.conversation_history = h] : h \in Histories}
    \cup {[DiscussionBody EXCEPT !.question = Absent],
          [DiscussionBody EXCEPT !.report = NoReport],
          [DiscussionBody EXCEPT !.report = [NoReport EXCEPT !.t = "none"]],
          [DiscussionBody EXCEPT !.report = [NoReport EXCEPT !.t = "str"]],
          [DiscussionBody EXCEPT !.personal_info = NoPerson],
          [DiscussionBody EXCEPT !.personal_info = [NoPerson EXCEPT !.t = "none"]]}

QuestionA == StrV(<<"W", "h", "a", "t", " ", "d", "o", " ", "y", "o", "u", " ", "l", "i", "k", "e", " ", "m", "o", "s", "t", "?">>)

QuestionValues ==
    {QList([i \in 1..k |-> QuestionA]) : k \in 0..MaxQuestions}
    \cup {QList(<<IntV(1), IntV(2), IntV(3)>>), QList(<<QuestionA, PyNone>>),
          QText(<<"o", "k">>), QText(<<"W", "h", "a", "t", " ", "d", "o", " ", "y", "o", "u", " ", "l", "i", "k", "e", " ", "m", "o", "s", "t", "?">>), QText(<<>>),
          QOther("absent"), QOther("none"), QOther("dict"), QOther("int")}

JsonReply(json) == ChainReply("text", <<<<"{", "}">>>>, json)

DiscussionLines ==
    {<<"A", "n", "s", "w", "e", "r", ":", " ", "I", " ", "a", "m", " ", "g", "l", "a", "d">>, <<"-", " ", "W", "h", "a", "t", " ", "d", "o", " ", "y", "o", "u", " ", "l", "i", "k", "e", " ", "m", "o", "s", "t", "?">>, <<"1", ".", " ", "H", "o", "w", " ", "d", "o", " ", "y", "o", "u", " ", "f", "e", "e", "l", " ", "t", "o", "d", "a", "y", "?">>,
     <<"-", " ", "s", "h", "o", "r", "t">>, <<"Q", "u", "e", "s", "t", "i", "o", "n", " ", "1", ":", " ", "w", "h", "y", " ", "i", "s", " ", "t", "h", "a", "t", " ", "s", "o", "?">>, <<"T", "h", "a", "t", " ", "i", "s", " ", "w", "o", "n", "d", "e", "r", "f", "u", "l">>, <<"A", "n", "s", "w", "e", "r", ":">>}

FewDiscussionReplies ==
    {ChainRaises, ChainNoResult, JsonReply(NoJsonValue), JsonReply(JsonOther),
     JsonReply(JsonDict(TextA, QList(<<QuestionA, QuestionA, QuestionA>>)))}

\* the replies drawn for a body: every reply for the plain body, a few otherwise
DiscussionReplies(d) ==
    IF d = DiscussionBody
    THEN FewDiscussionReplies
         \cup {JsonReply(JsonDict(a, q)) : a \in {TextA, Absent}, q \in QuestionValues}
         \cup {ProseReply(l) : l \in SeqsFromOne(DiscussionLines, MaxQuestions)}
    ELSE FewDiscussionReplies

\* [l.strip() for l in reply_text.split("\n") if l.strip()]
RECURSIVE StrippedLines(_)
StrippedLines(lines) ==
    IF lines = <<>> THEN <<>>
    ELSE (IF Strip(lines[1]) # <<>> THEN <<Strip(lines[1])>> ELSE <<>>)
            \o StrippedLines(Tail(lines))

\* line.split(":", 1)[1]
AfterFirstColon(line) ==
    LET i == CHOOSE k \in 1..Len(line) : line[k] = ":" /\ \A j \in 1..(k - 1) : line[j] # ":"
    IN  SubSeq(line, i + 1, Len(line))

IsAnswerLine(line) ==
    /\ \E keyword \in {<<"a", "n", "s", "w", "e", "r">>, <<"r", "e", "s", "p", "o", "n", "s", "e">>, <<":">>} : Contains(Lower(line), keyword)
    /\ ~Contains(Lower(line), <<"q", "u", "e", "s", "t", "i", "o", "n">>)

\* lines 466-477 and 488-489
FallbackAnswer(ep, lines) ==
    LET hits == {i \in 1..Len(lines) : IsAnswerLine(lines[i])}
        found == IF hits = {} THEN <<>>
                 ELSE LET line == lines[CHOOSE i \in hits : \A j \in hits : i <= j]
                      IN  IF Contains(line, <<":">>) THEN Strip(AfterFirstColon(line)) ELSE line
        answer == IF found = <<>> /\ lines # <<>> THEN lines[1] ELSE found
    IN  IF answer = <<>> THEN DefaultAnswer(ep) ELSE StrV(answer)

\* the question the loop of lines 480-486 takes from a line, <<>> when none
FallbackQuestion(line) ==
    IF /\ \/ line[1] = "-" \/ line[1] = Bullet \/ line[1] \in Digits
          \/ Contains(Lower(line), <<"q", "u", "e", "s", "t", "i", "o", "n">>)
       /\ Len(line) > 10
    THEN LET unbulleted == IF line[1] = "-" \/ line[1] = Bullet THEN Strip(Tail(line))
                           ELSE line
             clean_line == IF Contains(unbulleted, <<".", " ">>)
                           THEN Strip(AfterFirstDot(unbulleted)) ELSE unbulleted
         IN  IF ~Contains(Lower(clean_line), <<"q", "u", "e", "s", "t", "i", "o", "n">>) /\ Len(clean_line) > 10
             THEN clean_line ELSE <<>>
    ELSE <<>>

RECURSIVE FallbackQuestions(_)
FallbackQuestions(lines) ==
    IF lines = <<>> THEN <<>>
    ELSE (IF FallbackQuestion(lines[1]) # <<>> THEN <<StrV(FallbackQuestion(lines[1]))>>
          ELSE <<>>)
            \o FallbackQuestions(Tail(lines))

\* answer and questions as they stand at line 498: out of the parsed object,
\* or out of the text when json.loads or parsed.get raised
AnswerAndQuestions(ep, r) ==
    IF r.kind = "text" /\ r.json.t = "dict"
    THEN [answer |-> Get(r.json.answer, DefaultAnswer(ep)),
          questions |-> IF r.json.questions.t = "absent" THEN QList(<<>>)
                        ELSE r.json.questions]
    ELSE LET lines == StrippedLines(ReplyLines(r))
             questions == FallbackQuestions(lines)
         IN  [answer |-> FallbackAnswer(ep, lines),
              questions |-> QList(IF Len(questions) < 3
                                  THEN questions \o DefaultQuestions(ep)
                                  ELSE questions)]

\* questions[:3] and the padding loop raise (lines 499-501): a value that cannot
\* be sliced, or a short string, which has no append
ExactlyThreeRaises(questions) ==
    \/ questions.t \notin {"list", "str"}
    \/ questions.t = "str" /\ Len(questions.s) < 3

RECURSIVE PadTo3(_)
PadTo3(items) == IF Len(items) < 3 THEN PadTo3(Append(items, PadQuestion)) ELSE items

\* lines 498-501
ExactlyThree(questions) ==
    IF questions.t = "str" THEN QText(Take(questions.s, 3))
    ELSE QList(PadTo3(Take(questions.items, 3)))

\* lines 446-514
DiscussionOutcome(ep, r) ==
    LET aq == AnswerAndQuestions(ep, r)
    IN  IF ExactlyThreeRaises(aq.questions) THEN DefaultPayload(ep)
        ELSE DiscussionResponse(aq.answer, ExactlyThree(aq.questions))

\* the history as supplied, however long
WholeHistory(items) == items

\* conversation_history[-4:]
LastFour(items) == SubSeq(items, IF Len(items) > 4 THEN Len(items) - 3 ELSE 1, Len(items))

\* `if conversation_history:`
HistoryGiven(h) == h.t = "list" /\ h.items # <<>>

\* lines 399-443 raise: no body to .get from, a turn that is no dict, a
\* personal_info or report that is no dict
PromptRaises(d) ==
    \/ d.t = "none"
    \/ HistoryGiven(d.conversation_history)
        /\ \E i \in 1..Len(LastFour(d.conversation_history.items)) :
              ~LastFour(d.conversation_history.items)[i].dict
    \/ d.personal_info.t = "none"
    \/ d.report.t \in {"none", "str"}

\* history_context: the labelled turns (lines 406-411)
HistoryContext(h) ==
    IF ~HistoryGiven(h) THEN <<>>
    ELSE [i \in 1..Len(LastFour(h.items)) |->
            [role |-> IF LastFour(h.items)[i].role = StrV(<<"u", "s", "e", "r">>) THEN "Child" ELSE "Assistant",
             text |-> Get(LastFour(h.items)[i].text, Empty)]]

DiscussionQuery(ep, d) ==
    [kind |-> ep,
     history |-> HistoryContext(d.conversation_history),
     question |-> Get(d.question, Empty),
     personal_info |-> d.personal_info,
     report |-> d.report]

\* lines 399-445, and the outer except when the prompt or the call raises
DiscussionCall ==
    /\ endpoint \in Conversational
    /\ pc = "start"
    /\ IF PromptRaises(data)
       THEN /\ response' = DefaultPayload(endpoint)
            /\ pc' = "done"
            /\ UNCHANGED <<query, reply, calls>>
       ELSE /\ query' = DiscussionQuery(endpoint, data)
            /\ calls' = calls + 1
            /\ \E r \in DiscussionReplies(data) :
                /\ reply' = r
                /\ IF r.kind = "raise"
                   THEN response' = DefaultPayload(endpoint) /\ pc' = "done"
                   ELSE response' = response /\ pc' = "called"
    /\ UNCHANGED <<endpoint, data, ocrVars>>
    /\ globals' = AfterStep(globals, endpoint)
    /\ UNCHANGED parked

\* a handler that asks the chat pipeline again when the reply is no JSON
RetryingRespond ==
    /\ endpoint \in Conversational
    /\ pc = "called"
    /\ IF reply.json.t = "invalid" /\ calls < 2
       THEN pc' = "start" /\ response' = response
       ELSE pc' = "done" /\ response' = DiscussionOutcome(endpoint, reply)
    /\ UNCHANGED <<endpoint, data, query, reply, calls, ocrVars, globals, parked>>

\* lines 446-503
DiscussionRespond ==
    /\ endpoint \in Conversational
    /\ pc = "called"
    /\ response' = DiscussionOutcome(endpoint, reply)
    /\ pc' = "done"
    /\ UNCHANGED <<endpoint, data, query, reply, calls, ocrVars>>
    /\ globals' = AfterStep(globals, endpoint)
    /\ UNCHANGED parked

InitReport ==
    /\ pc = "start"
    /\ \/ endpoint = "rag" /\ data \in RagBodies
       \/ endpoint = "discussion-questions" /\ data \in QuestionBodies
       \/ endpoint \in Conversational /\ data \in DiscussionBodies
    /\ query = NoQuery
    /\ upload = BaseUpload
    /\ images = 0
    /\ idx = 0
    /\ reply = NoReply
    /\ results = <<>>
    /\ calls = 0
    /\ response = NoResponse
    /\ globals = Loaded
    /\ parked = NoRequest

NextReport ==
    \/ RagReject
    \/ RagCall
    \/ RagRespond
    \/ QuestionsReject
    \/ QuestionsCall
    \/ QuestionsRespond
    \/ DiscussionCall
    \/ DiscussionRespond

SpecReport == InitReport /\ [][NextReport]_vars

\* C1: for every input text parse_report_sections returns the three lists
\* strengths, weaknesses and recommendations, each with at least 1 and at most
\* 3 entries, and a section that collected nothing holds only the placeholder
\* "No <section> identified".
C1_ThreeCappedSections ==
    (endpoint = "rag" /\ response.body.kind = "report") =>
        LET lines == FullAnswer(reply)
            body == response.body
            got(k) == CASE k = "strengths" -> body.strengths
                        [] k = "weaknesses" -> body.weaknesses
                        [] k = "recommendations" -> body.recommendations
            blank == [i \in 1..Len(lines) |-> Strip(lines[i]) = <<>>]
            heading == [i \in 1..Len(lines) |-> HeadingOf(Strip(lines[i]))]
            \* some content line follows a heading of section k
            collects(k) ==
                \E i, j \in 1..Len(lines) :
                    /\ i < j
                    /\ heading[i] = k
                    /\ ~blank[j] /\ heading[j] = ""
                    /\ \A m \in (i + 1)..(j - 1) : heading[m] = ""
        IN  \A k \in {"strengths", "weaknesses", "recommendations"} :
                /\ Len(got(k)) \in 1..3
                /\ ~collects(k) => got(k) = <<Placeholder(k)>>
                /\ collects(k) => \A i \in 1..Len(got(k)) : got(k)[i] # Placeholder(k)

\* a report whose text put more than three lines under one heading, and left
\* another section empty
C1_Witness ==
    /\ endpoint = "rag"
    /\ response.body.kind = "report"
    /\ Len(reply.lines) > 4
    /\ HeadingOf(Strip(reply.lines[1])) = "weaknesses"
    /\ \A i \in 2..Len(reply.lines) : Strip(reply.lines[i]) # <<>> /\ HeadingOf(Strip(reply.lines[i])) = ""
    /\ Len(response.body.weaknesses) = 3
    /\ response.body.strengths = <<Placeholder("strengths")>>

\* the response of a conversational endpoint
Answered == endpoint \in Conversational /\ pc = "done"

\* C2: every response of /discussion-followup and /discussion-free carries a
\* "questions" value that is a list of exactly 3 question strings, whatever the
\* chat pipeline replied.
C2_ThreeQuestionStrings ==
    Answered =>
        /\ response.body.kind = "discussion"
        /\ response.body.questions.t = "list"
        /\ Len(response.body.questions.items) = 3
        /\ \A i \in 1..3 : response.body.questions.items[i].t = "str"

\* the request came without a JSON body, without "question" or without "report"
LacksDiscussionInput ==
    \/ data.t = "none"
    \/ data.question = Absent
    \/ data.report.t = "absent"

\* C8: /discussion-followup and /discussion-free, called without a JSON body or
\* without their "question" or "report" input, answer with status 400 and an
\* error message, and make no chat-pipeline call.
C8_ConversationalRejects ==
    (Answered /\ LacksDiscussionInput) =>
        /\ response.status = 400
        /\ response.body.kind = "error"
        /\ calls = 0

(***************************************************************************)
(* The server of app.py: one request to any endpoint of ocr.py or report.py *)
(***************************************************************************)
Init == InitUpload \/ InitReport

Next == NextUpload \/ NextReport

Spec == Init /\ [][Next]_vars

\* the request lacks the input its endpoint requires
LacksRequiredInput ==
    \/ endpoint = "extract-marksheet" /\ (~upload.has_file \/ upload.filename = <<>>)
    \/ /\ endpoint = "rag"
       /\ \/ data.t = "none" \/ data = EmptyBody
          \/ Absent \in {data.dob, data.time_of_birth, data.place_of_birth}
          \/ data.symptom_keywords.t = "absent"
    \/ /\ endpoint = "discussion-questions"
       /\ \/ data.t = "none" \/ data = EmptyBody
          \/ data.report.t \in {"absent", "none"}
          \/ data.report = [NoReport EXCEPT !.t = "dict"]

\* the first of dob, time_of_birth, place_of_birth, symptom_keywords the body lacks
FirstLacking ==
    IF data.dob = Absent THEN "dob"
    ELSE IF data.time_of_birth = Absent THEN "time_of_birth"
    ELSE IF data.place_of_birth = Absent THEN "place_of_birth"
    ELSE "symptom_keywords"

RaisedInside == reply.kind = "raise" \/ ErrorResult \in ReturnedData

\* C9: an exception raised inside a handler after input validation is caught
\* by the handler: none escapes, and the response is status 500 with an error
\* string or, on /discussion-followup and /discussion-free only, status 200
\* with the default answer-and-questions payload.
C9_ExceptionsAnswered ==
    /\ pc # "raised"
    /\ (pc = "done" /\ RaisedInside) =>
        \/ response.status = 500 /\ response.body.kind = "error"
        \/ endpoint \in Conversational /\ response = DefaultPayload(endpoint)

(***************************************************************************)
(* Two requests in flight: the threads of the server run the handlers of   *)
(* app.py's routes one step at a time, in any order                        *)
(***************************************************************************)
\* the request whose thread is running
Context ==
    [endpoint |-> endpoint, pc |-> pc, data |-> data, query |-> query, upload |-> upload,
     images |-> images, idx |-> idx, reply |-> reply, results |-> results,
     calls |-> calls, response |-> response]

Arrival(ep, d, u) ==
    [endpoint |-> ep, pc |-> "start", data |-> d, query |-> NoQuery, upload |-> u,
     images |-> 0, idx |-> 0, reply |-> NoReply, results |-> <<>>, calls |-> 0,
     response |-> NoResponse]

GradedSheet ==
    [BaseUpload EXCEPT !.filename = CsvName,
                       !.sheet = [format |-> "csv",
                                  rows |-> <<[obtained |-> GradeAPlus, maximum |-> IntV(100)]>>]]

TwoPages == [BaseUpload EXCEPT !.filename = PdfName, !.pages = 2]

TwoTurns == ListOf(<<Turn(StrV(<<"u", "s", "e", "r">>), StrV(<<"h", "i">>)), Turn(Absent, Absent)>>)

Arrivals ==
    {Arrival("extract-marksheet", NoData, u) :
        u \in {GradedSheet, TwoPages, [BaseUpload EXCEPT !.has_file = FALSE]}}
    \cup {Arrival("rag", d, BaseUpload) :
            d \in {[RagBody EXCEPT !.academic_records = ListOf(<<GoodRecord>>)],
                   [RagBody EXCEPT !.dob = Absent]}}
    \cup {Arrival("discussion-questions", d, BaseUpload) :
            d \in {[QuestionBody EXCEPT !.personal_info = NoPerson], EmptyBody}}
    \cup {Arrival(ep, d, BaseUpload) :
            ep \in Conversational,
            d \in {[DiscussionBody EXCEPT !.conversation_history = TwoTurns],
                   [DiscussionBody EXCEPT !.conversation_history = NoList]}}

Running(c) ==
    /\ endpoint = c.endpoint
    /\ pc = c.pc
    /\ data = c.data
    /\ query = c.query
    /\ upload = c.upload
    /\ images = c.images
    /\ idx = c.idx
    /\ reply = c.reply
    /\ results = c.results
    /\ calls = c.calls
    /\ response = c.response

InitServer ==
    /\ \E c \in Arrivals : Running(c)
    /\ parked \in Arrivals
    /\ globals = Loaded

\* the running thread is suspended and the other one runs
Switch ==
    /\ parked # NoRequest
    /\ endpoint' = parked.endpoint
    /\ pc' = parked.pc
    /\ data' = parked.data
    /\ query' = parked.query
    /\ upload' = parked.upload
    /\ images' = parked.images
    /\ idx' = parked.idx
    /\ reply' = parked.reply
    /\ results' = parked.results
    /\ calls' = parked.calls
    /\ response' = parked.response
    /\ parked' = Context
    /\ UNCHANGED globals

NextServer == NextUpload \/ NextReport \/ Switch

SpecServer == InitServer /\ [][NextServer]_vars

\* two answered requests that carried the same input and got the same reply
\* from the one external call they made
SameRequest(a, b) ==
    /\ a.endpoint = b.endpoint
    /\ a.pc = "done" /\ b.pc = "done"
    /\ a.data = b.data
    /\ a.upload = b.upload
    /\ a.reply = b.reply
    /\ a.calls <= 1 /\ b.calls <= 1

\* a response without the week tag, which is read off the clock
Payload(r) == IF r.body.kind = "questions" THEN [r EXCEPT !.body.week_tag = ""] ELSE r

\* C10: no handler writes to a module-level value (grade table, zodiac and
\* famous-people tables, index and chain objects), so in every interleaving of
\* two requests a request's prompt and response are those of any other request
\* that carried the same input and got the same reply, whatever ran before or
\* in between.
C10_NoSharedMutableState ==
    /\ globals = Loaded
    /\ SameRequest(parked, Context) =>
        /\ parked.query = query
        /\ Payload(parked.response) = Payload(response)

\* a discussion request was answered while another one, already past its
\* chat-pipeline call, was waiting to go on
C10_Witness ==
    /\ endpoint \in Conversational
    /\ pc = "done"
    /\ calls = 1
    /\ response.body.kind = "discussion"
    /\ parked.endpoint \in Conversational
    /\ parked.pc = "called"
    /\ parked.calls = 1

(***************************************************************************)
(* Claims about the external calls                                         *)
(***************************************************************************)
\* a handler step that calls the vision model or the chat pipeline
CallsOnce ==
    /\ calls' = calls + 1
    /\ reply.kind # "raise"
    /\ \/ /\ endpoint = "extract-marksheet"
          /\ ~IsSpreadsheet(upload.filename)
          /\ pc = "pages"
          /\ calls = idx
          /\ idx < images
       \/ /\ endpoint \in {"rag", "discussion-questions"} \cup Conversational
          /\ pc = "start"
          /\ calls = 0

\* the calls made so far are those of the pages iterated, one each, plus the
\* one that raised; a report request has made at most one
CallsCounted ==
    /\ endpoint = "extract-marksheet" =>
        /\ IsSpreadsheet(upload.filename) => calls = 0
        /\ calls = idx + (IF pc = "raised" /\ reply.kind # "none" THEN 1 ELSE 0)
        /\ calls <= images
        /\ (pc = "done" /\ response.status = 200 /\ ~IsSpreadsheet(upload.filename)) =>
              calls = images
    /\ endpoint # "extract-marksheet" => calls <= 1

\* C11: external calls are never retried: an image/PDF upload makes exactly
\* one vision-model call per page, in page order, a spreadsheet upload none,
\* a report or discussion request at most one chat-pipeline call, and after a
\* failed call or an unparseable reply no further call is made for that page
\* or request.
C11_NoRetries == [](CallsCounted) /\ [][calls' # calls => CallsOnce]_vars

\* a two-page upload answered after two calls, one of them with a reply that
\* gave no result
C11_Witness ==
    /\ endpoint = "extract-marksheet"
    /\ pc = "done"
    /\ images = 2
    /\ calls = 2
    /\ Len(results) < 2
    /\ response.status = 200

\* C12: a successful /api/extract-marksheet response holds exactly one result
\* for every page processed, numbered 1..pages_processed in increasing order,
\* whatever the vision model replied for each page.
C12_OneResultPerPage ==
    (endpoint = "extract-marksheet" /\ response.body.kind = "marksheet") =>
        /\ Len(response.body.results) = response.body.pages_processed
        /\ \A i \in 1..Len(response.body.results) : response.body.results[i].page = i

(***************************************************************************)
(* Claims about the normalized subjects                                    *)
(***************************************************************************)
\* the one page of a single-page upload was given a result
OnePageResult ==
    /\ endpoint = "extract-marksheet"
    /\ response.body.kind = "marksheet"
    /\ images = 1
    /\ Len(response.body.results) = 1
    /\ reply.kind = "json"
    /\ reply.obj.subjects.t = "list"

KnownLabel(v) == v.t = "str" /\ v.s \in DOMAIN GradeToMarks

MissingMark(v) == v \in {Absent, NA, PyNone, Empty}

\* the obtained marks the rule gives a subject as the vision model wrote it;
\* -1 where the rule names none (a float stands for its whole part)
RuleMarks(subj) ==
    IF KnownLabel(subj.theory_marks) THEN GradeToMarks[subj.theory_marks.s]
    ELSE IF MissingMark(subj.theory_marks)
         THEN IF KnownLabel(subj.grade) THEN GradeToMarks[subj.grade.s] ELSE -1
         ELSE IF subj.theory_marks.t = "int" THEN subj.theory_marks.n
         ELSE IF subj.theory_marks.t = "float" THEN subj.theory_marks.n \div 100
         ELSE IF subj.theory_marks.t = "str" /\ TextIsInt(subj.theory_marks.s)
              THEN TextInt(subj.theory_marks.s)
              ELSE -1

\* the maximum marks the rule gives
RuleMaximum(subj) ==
    IF subj.total_marks.t = "int" THEN subj.total_marks.n
    ELSE IF subj.total_marks.t = "float" THEN subj.total_marks.n \div 100
    ELSE IF subj.total_marks.t = "str" /\ TextIsInt(subj.total_marks.s)
         THEN TextInt(subj.total_marks.s)
         ELSE 100

\* C13: for every subject normalized on the vision path, obtained marks is
\* the grade table's mark when the marks field is a grade label, else the
\* table's mark of the subject's grade when the marks field is missing and
\* the grade is a known label, else the raw number of the marks field, be it
\* a JSON number or numeric text such as "85"; maximum marks is the integer
\* value of total_marks, or 100 when that is absent or unparseable.
C13_SubjectMarksRule ==
    OnePageResult =>
        LET given == reply.obj.subjects.items
            got == response.body.results[1].data.subjects
        IN  /\ Len(got) = Len(given)
            /\ \A i \in 1..Len(given) :
                /\ RuleMarks(given[i]) # -1 => got[i].theory_marks = RuleMarks(given[i])
                /\ got[i].total_marks = RuleMaximum(given[i])

(***************************************************************************)
(* /rag over the dates of the calendar                                     *)
(***************************************************************************)
MaxDay == 32

Years == {2015, 2016}

Pad2(n) == IF n < 10 THEN <<"0">> \o NatText(n) ELSE NatText(n)

\* year-month-day written YYYY-MM-DD
FormatDate(y, m, d) == NatText(y) \o <<"-">> \o Pad2(m) \o <<"-">> \o Pad2(d)

\* every month/day combination, the impossible ones included, and values that
\* are no date at all
BirthDates ==
    {StrV(FormatDate(y, m, d)) : y \in Years, m \in 0..13, d \in 0..MaxDay}
    \cup {StrV(<<"2", "1", "/", "0", "3", "/", "2", "0", "1", "5">>), StrV(<<"2", "0", "1", "5", "-", "0", "3">>), StrV(<<"M", "a", "r", "c", "h", " ", "2", "1">>), Empty,
          IntV(2015), PyNone}

ZodiacBodies ==
    {[RagBody EXCEPT !.dob = x, !.question = TextA] : x \in BirthDates \cup {Absent}}

InitZodiac ==
    /\ endpoint = "rag"
    /\ pc = "start"
    /\ data \in ZodiacBodies
    /\ query = NoQuery
    /\ upload = BaseUpload
    /\ images = 0
    /\ idx = 0
    /\ reply = NoReply
    /\ results = <<>>
    /\ calls = 0
    /\ response = NoResponse
    /\ globals = Loaded
    /\ parked = NoRequest

NextZodiac == RagReject \/ RagCall \/ RagRespond

SpecZodiac == InitZodiac /\ [][NextZodiac]_vars

\* days of month m in year y
CalendarDays(y, m) ==
    <<31, IF (y % 4 = 0 /\ y % 100 # 0) \/ y % 400 = 0 THEN 29 ELSE 28,
      31, 30, 31, 30, 31, 31, 30, 31, 30, 31>>[m]

\* the calendar dates the text v writes as YYYY-MM-DD
DatesWritten(v) ==
    {ymd \in Years \X (1..12) \X (1..31) :
        /\ ymd[3] <= CalendarDays(ymd[1], ymd[2])
        /\ v = StrV(FormatDate(ymd[1], ymd[2], ymd[3]))}

TwelveSigns ==
    {"Aries", "Taurus", "Gemini", "Cancer", "Leo", "Virgo", "Libra", "Scorpio",
     "Sagittarius", "Capricorn", "Aquarius", "Pisces"}

\* the ranges of the table that hold month m, day d
RangesHolding(m, d) ==
    {k \in 1..Len(ZodiacSigns) :
        /\ ZodiacSigns[k].start[1] < m
           \/ (ZodiacSigns[k].start[1] = m /\ ZodiacSigns[k].start[2] <= d)
        /\ m < ZodiacSigns[k].end[1]
           \/ (m = ZodiacSigns[k].end[1] /\ d <= ZodiacSigns[k].end[2])}

\* C14: get_zodiac_and_famous_people maps every valid calendar date written
\* YYYY-MM-DD, 29 February included, to exactly one of the twelve signs, never
\* "Unknown": exactly one of the thirteen ranges holds the date; the people
\* returned are the five-name entry of that sign; any input that is no valid
\* date yields ("Unknown", empty list) without raising.
C14_ZodiacTotal ==
    (endpoint = "rag" /\ query.kind = "rag") =>
        IF DatesWritten(data.dob) # {}
        THEN LET ymd == CHOOSE x \in DatesWritten(data.dob) : TRUE
                 held == RangesHolding(ymd[2], ymd[3])
             IN  /\ Len(ZodiacSigns) = 13
                 /\ Cardinality(held) = 1
                 /\ \A k \in held : query.zodiac = ZodiacSigns[k].sign
                 /\ query.zodiac \in TwelveSigns
                 /\ query.famous_people = FamousZodiacs[query.zodiac]
                 /\ Len(query.famous_people) = 5
        ELSE query.zodiac = "Unknown" /\ query.famous_people = <<>>

\* the report of a child born on 29 February
C14_Witness ==
    /\ endpoint = "rag"
    /\ pc = "done"
    /\ data.dob = StrV(<<"2", "0", "1", "6", "-", "0", "2", "-", "2", "9">>)
    /\ response.body.kind = "report"
    /\ response.body.zodiac = "Pisces"
    /\ Len(response.body.famous_people) = 5

\* the one page of a single-page upload was given a result, whatever its fields
PageResult ==
    /\ endpoint = "extract-marksheet"
    /\ response.body.kind = "marksheet"
    /\ images = 1
    /\ Len(response.body.results) = 1
    /\ reply.kind = "json"

\* the overall grade of the page was derived from a GPA found in other_info
GradeFromGpa == Truthy(GpaValue(reply.obj.other_info))

\* C15: on the vision path source_type is "gpa" if and only if the result's
\* overall_grade was derived from a GPA value found in other_info; every other
\* result is tagged "grade" when a normalized subject has a grade other than
\* null, empty or "N/A", and "marks" otherwise.
C15_GpaTagConsistent ==
    PageResult =>
        LET d == response.body.results[1].data
        IN  /\ d.source_type = "gpa" <=> GradeFromGpa
            /\ d.source_type # "gpa" =>
                d.source_type =
                    IF \E i \in 1..Len(d.subjects) :
                          d.subjects[i].grade \notin {PyNone, Empty, NA}
                    THEN "grade" ELSE "marks"

(***************************************************************************)
(* Claims about /discussion-questions                                      *)
(***************************************************************************)
\* the questions parsed from the reply of the chat pipeline, none when the
\* call was not made or raised
ParsedFromReply == IF reply.kind = "text" THEN ParsedQuestions(reply.lines) ELSE <<>>

\* C16: every 200 response of /discussion-questions carries between 3 and 5
\* questions: the first 5 parsed from the reply, in reply order, when at least
\* 3 were parsed, and otherwise (fewer parsed, or the call raised) the fallback
\* list, which has 4 or 5 entries whatever the report holds.
C16_ThreeToFiveQuestions ==
    (endpoint = "discussion-questions" /\ response.status = 200) =>
        LET questions == response.body.questions
            parsed == ParsedFromReply
        IN  /\ Len(questions) \in 3..5
            /\ IF Len(parsed) >= 3
               THEN /\ Len(questions) = (IF Len(parsed) > 5 THEN 5 ELSE Len(parsed))
                    /\ \A i \in 1..Len(questions) : questions[i] = parsed[i]
               ELSE /\ Len(questions) \in 4..5
                    /\ questions =
                         get_short_fallback_questions(data.report, data.personal_info)

\* a reply with more than five questions, answered with its first five
C16_Witness ==
    /\ endpoint = "discussion-questions"
    /\ response.status = 200
    /\ Len(ParsedFromReply) > 5
    /\ Len(response.body.questions) = 5

(***************************************************************************)
(* Claims about the prompt of /discussion-followup and /discussion-free    *)
(***************************************************************************)
\* the turns the request carries
SuppliedTurns ==
    IF data.conversation_history.t = "list" THEN data.conversation_history.items ELSE <<>>

\* the prompt of a conversational request was sent to the chat pipeline
PromptSent == endpoint \in Conversational /\ query.kind = endpoint

\* C17: the prompt of /discussion-followup and /discussion-free holds only the
\* last 4 turns of the supplied history (all when fewer, none when empty), in
\* their original order, a turn of the child labelled "Child" and a turn of
\* the assistant labelled "Assistant".
C17_LastFourTurns ==
    PromptSent =>
        LET turns == SuppliedTurns
            n == Len(turns)
            k == IF n < 4 THEN n ELSE 4
        IN  /\ Len(query.history) = k
            /\ \A i \in 1..k :
                LET turn == turns[n - k + i]
                IN  /\ turn.role = StrV(<<"u", "s", "e", "r">>) => query.history[i].role = "Child"
                    /\ turn.role = StrV(<<"a", "s", "s", "i", "s", "t", "a", "n", "t">>) => query.history[i].role = "Assistant"
                    /\ turn.text # Absent => query.history[i].text = turn.text

\* a request with more than four turns, the first unlike the second, answered
C17_Witness ==
    /\ PromptSent
    /\ pc = "done"
    /\ Len(SuppliedTurns) > 4
    /\ SuppliedTurns[1] # SuppliedTurns[2]
    /\ Len(query.history) = 4

(***************************************************************************)
(* Claims about the sections of a report                                   *)
(***************************************************************************)
\* the section a line names by its keyword, strength before weakness / area(s)
\* for improvement, before recommendation; "" for a line that names none
KeywordSection(line) ==
    LET has(word) == Contains(Lower(line), word)
    IN  IF has(<<"s", "t", "r", "e", "n", "g", "t", "h">>) THEN "strengths"
        ELSE IF has(<<"w", "e", "a", "k", "n", "e", "s", "s">>) \/ has(<<"a", "r", "e", "a", " ", "f", "o", "r", " ", "i", "m", "p", "r", "o", "v", "e", "m", "e", "n", "t">>)
                \/ has(<<"a", "r", "e", "a", "s", " ", "f", "o", "r", " ", "i", "m", "p", "r", "o", "v", "e", "m", "e", "n", "t">>) THEN "weaknesses"
        ELSE IF has(<<"r", "e", "c", "o", "m", "m", "e", "n", "d", "a", "t", "i", "o", "n">>) THEN "recommendations"
        ELSE ""

\* C18: parse_report_sections assigns content by the most recent heading: a
\* non-blank line with a heading keyword (strength; weakness or area(s) for
\* improvement; recommendation; any case, in that priority) switches the
\* section and is never stored, lines before the first heading are dropped,
\* and each section holds, in order, the first three content lines that
\* followed headings of that section (each as format_response_item leaves it).
C18_ContentUnderLastHeading ==
    (endpoint = "rag" /\ response.body.kind = "report") =>
        LET lines == FullAnswer(reply)
            body == response.body
            got(k) == CASE k = "strengths" -> body.strengths
                        [] k = "weaknesses" -> body.weaknesses
                        [] k = "recommendations" -> body.recommendations
            heading == [i \in 1..Len(lines) |-> KeywordSection(lines[i])]
            content == {i \in 1..Len(lines) : Strip(lines[i]) # <<>> /\ heading[i] = ""}
            \* the heading most recently before line i, 0 when there is none
            last(i) == IF \E j \in 1..(i - 1) : heading[j] # ""
                       THEN CHOOSE j \in 1..(i - 1) :
                              heading[j] # "" /\ \A m \in (j + 1)..(i - 1) : heading[m] = ""
                       ELSE 0
            under(k) == {i \in content : last(i) # 0 /\ heading[last(i)] = k}
            \* the p-th line under section k
            nth(k, p) == CHOOSE i \in under(k) :
                            Cardinality({j \in under(k) : j < i}) = p - 1
        IN  \A k \in {"strengths", "weaknesses", "recommendations"} :
                IF under(k) = {} THEN got(k) = <<Placeholder(k)>>
                ELSE /\ Len(got(k)) =
                          (IF Cardinality(under(k)) > 3 THEN 3 ELSE Cardinality(under(k)))
                     /\ \A p \in 1..Len(got(k)) :
                          got(k)[p] = format_response_item(Strip(lines[nth(k, p)]))

\* a reply whose first line names two sections and takes the first, followed
\* by content
C18_Witness ==
    /\ endpoint = "rag"
    /\ response.body.kind = "report"
    /\ Len(reply.lines) = 2
    /\ Contains(Lower(reply.lines[1]), <<"w", "e", "a", "k", "n", "e", "s", "s">>)
    /\ KeywordSection(reply.lines[1]) = "strengths"
    /\ response.body.strengths = <<reply.lines[2]>>
    /\ response.body.weaknesses = <<Placeholder("weaknesses")>>

(***************************************************************************)
(* Claims about the extension branching                                    *)
(***************************************************************************)
\* the name ends in ext, letter case aside
NamedWith(ext) == EndsWith(Lower(upload.filename), ext)

\* the handler answered out of the spreadsheet branch
SpreadsheetAnswered ==
    /\ response.body.kind = "marksheet"
    /\ images = 0
    /\ response.body.pages_processed = 1

\* C19: the spreadsheet branch is taken exactly when the filename ends in
\* .xls, .xlsx or .csv, letter case aside; inside it the file is read as CSV
\* exactly when its name ends in .csv under the same comparison, so a CSV
\* upload named in any letter case is parsed as CSV; the branch returns one
\* result, page 1, with pages_processed 1.
C19_ExtensionBranching ==
    (endpoint = "extract-marksheet" /\ pc = "done" /\ upload.has_file
        /\ upload.filename # <<>>) =>
        /\ SpreadsheetAnswered <=> (NamedWith(DotXls) \/ NamedWith(DotXlsx) \/ NamedWith(DotCsv))
        /\ SpreadsheetAnswered =>
            /\ Len(response.body.results) = 1
            /\ response.body.results[1].page = 1
            /\ calls = 0
            \* read with the reader of its name: no error for content of that
            \* format whose cells all convert
            /\ (/\ upload.sheet.format = (IF NamedWith(DotCsv) THEN "csv" ELSE "excel")
                /\ \A i \in 1..Len(upload.sheet.rows) : ~ExcelRow(upload.sheet.rows[i]).raises)
                  => ~response.body.results[1].data.error

====
